---- MODULE Spec2Model ----
(***************************************************************************)
(* zub-vm: IR -> bytecode compiler, stack VM, upvalue cells and the        *)
(* mark-and-sweep heap.  The compiler is a family of operators over a      *)
(* compiler record, the VM handlers are operators over a VM record, and    *)
(* each action of the specification is one call of the embedder API        *)
(* (VM::exec) or one iteration of VM::run's dispatch loop.                 *)
(*                                                                         *)
(* Conventions.  Rust indices are 0-based, TLA+ sequences 1-based: stack   *)
(* slot i is stack[i+1], code offset ip is code[ip+1].  A Rust String is   *)
(* the sequence of its characters.  An f64 is kept as the integer it       *)
(* holds (the programs only use integral floats).  A Handle is its         *)
(* generation number (obj_counter never repeats, so gen identifies the     *)
(* pointer).  A usize that wrapped below zero is kept as the negative      *)
(* integer with the same residue mod 2^64.                                 *)
(***************************************************************************)
EXTENDS Integers, Sequences, FiniteSets, TLC

\* ------------------------------------------------------------------ bounds
MaxExecs == 1
MaxRoots == 1
MaxPool == 4
MaxObjects == 2
MaxCleans == 3
MaxBody == 2
MaxDeclared == 6
MaxNodes == 3

\* --------------------------------------------------------- program constants
STACK_SIZE == 4096
HEAP_GROWTH == 2
GC_TRIGGER_COUNT == 1024
\* mem::size_of::<Object>() on a 64-bit target: the widest variant, Closure,
\* is 160 bytes, and the tag word makes 168
OBJECT_SIZE == 168
U8_MAX == 255
MAX_CONSTANTS == 1028

\* ------------------------------------------------------------------ helpers
Put(f, k, v) == [x \in (DOMAIN f) \cup {k} |-> IF x = k THEN v ELSE f[x]]
Drop(f, S) == [x \in (DOMAIN f) \ S |-> f[x]]
Last(s) == s[Len(s)]
Front(s) == SubSeq(s, 1, Len(s) - 1)
Reverse(s) == [i \in 1..Len(s) |-> s[Len(s) + 1 - i]]
Range(s) == {s[i] : i \in 1..Len(s)}
SetAt(s, i, v) == [s EXCEPT ![i] = v]

\* `let v = ...; K(v)` and, for an operator that returns a state with a
\* result ([vm, r] or [c, r]), `let (s, r) = ...; K(s, r)`
Let(v, K(_)) == K(v)
Then(p, K(_, _)) == K(p.vm, p.r)
ThenC(p, K(_, _)) == K(p.c, p.r)

RECURSIVE SetToSeq(_)
SetToSeq(S) ==
    IF S = {} THEN <<>>
    ELSE LET m == CHOOSE x \in S : \A y \in S : x <= y
         IN <<m>> \o SetToSeq(S \ {m})

\* ------------------------------------------------------------------- values
Float(n) == [t |-> "Float", v |-> n]
truelit == [t |-> "True", v |-> 0]
falselit == [t |-> "False", v |-> 0]
nil == [t |-> "Nil", v |-> 0]
object(h) == [t |-> "Obj", v |-> h]
FromBool(b) == IF b THEN truelit ELSE falselit

truthy(val) == val.t \notin {"False", "Nil"}
IsObj(val) == val.t = "Obj"

\* the handles a sequence of values holds (Value::as_object over an iterator)
HandlesOf(vals) == {vals[i].v : i \in {j \in 1..Len(vals) : IsObj(vals[j])}}
SeqHandles(vals) ==
    LET idx == SetToSeq({j \in 1..Len(vals) : IsObj(vals[j])})
    IN [i \in 1..Len(idx) |-> vals[idx[i]].v]

\* --------------------------------------------------------------------- heap
EmptyFn == [x \in {} |-> 0]

HeapDefault ==
    [last_sweep |-> 0, object_sweeps |-> EmptyFn, obj_counter |-> 0,
     objects |-> {}, rooted |-> EmptyFn, store |-> EmptyFn]

insert_temp(heap, obj) ==
    LET gen == heap.obj_counter + 1
    IN [heap EXCEPT !.obj_counter = gen,
                    !.objects = @ \cup {gen},
                    !.store = Put(@, gen, obj)]

\* the handle insert_temp / insert just returned
NewHandle(heap) == heap.obj_counter

\* Heap::insert: the map holds one Rc, the returned Rooted the other
insert(heap, obj) ==
    LET h1 == insert_temp(heap, obj)
    IN [h1 EXCEPT !.rooted = Put(@, NewHandle(h1), 2)]

\* dropping a Rooted (also what Rooted::into_handle does to its Rc)
into_handle(heap, h) ==
    IF h \in DOMAIN heap.rooted
    THEN [heap EXCEPT !.rooted[h] = @ - 1]
    ELSE heap

\* make_rooted that keeps for itself the one Rc it creates
make_rooted_unshared(heap, h) ==
    IF h \in DOMAIN heap.rooted
    THEN [heap EXCEPT !.rooted[h] = @ + 1]
    ELSE [heap EXCEPT !.rooted = Put(@, h, 1)]

make_rooted(heap, h) ==
    IF h \in DOMAIN heap.rooted
    THEN [heap EXCEPT !.rooted[h] = @ + 1]
    ELSE [heap EXCEPT !.rooted = Put(@, h, 2)]

contains(heap, h) == h \in heap.objects
HeapLen(heap) == Cardinality(heap.objects)

\* ------------------------------------------------------------ Trace / mark
\* cells: the upvalue cells (Rc<RefCell<Result<Value, usize>>>), by cell id
ClosedValues(cells, ups) ==
    LET idx == SetToSeq({j \in 1..Len(ups) : ~cells[ups[j]].open})
    IN [i \in 1..Len(idx) |-> cells[ups[idx[i]]].val]

\* the values Trace for Object visits, in order
TraceChildren(obj, cells) ==
    CASE obj.kind = "String" -> <<>>
      [] obj.kind = "NativeFunction" -> <<>>
      [] obj.kind = "Function" -> obj.constants
      [] obj.kind = "Closure" ->
            obj.function.constants \o ClosedValues(cells, obj.upvalues)
      [] obj.kind = "List" -> obj.content
      [] obj.kind = "Dict" -> [i \in 1..Len(obj.content) |-> obj.content[i].val]

RECURSIVE mark(_, _, _, _, _)
RECURSIVE trace(_, _, _, _, _, _)

\* Tracer::mark; sweeps is object_sweeps, the result is the new object_sweeps
mark(h, sweeps, new_sweep, heap, cells) ==
    LET s1 == IF h \in DOMAIN sweeps THEN sweeps ELSE Put(sweeps, h, new_sweep - 1)
    IN IF s1[h] # new_sweep /\ h \in heap.objects
       THEN trace(TraceChildren(heap.store[h], cells), 1,
                  [s1 EXCEPT ![h] = new_sweep], new_sweep, heap, cells)
       ELSE s1

\* Trace for [Value]: each object value is marked in turn
trace(vals, i, sweeps, new_sweep, heap, cells) ==
    IF i > Len(vals) THEN sweeps
    ELSE trace(vals, i + 1,
               IF IsObj(vals[i])
               THEN mark(vals[i].v, sweeps, new_sweep, heap, cells)
               ELSE sweeps,
               new_sweep, heap, cells)

\* one root of clean_excluding: tracer.mark(handle), then (&*handle.ptr).trace
MarkRoot(h, sweeps, new_sweep, heap, cells) ==
    LET s1 == mark(h, sweeps, new_sweep, heap, cells)
    IN trace(TraceChildren(heap.store[h], cells), 1, s1, new_sweep, heap, cells)

RECURSIVE MarkRoots(_, _, _, _, _, _)
MarkRoots(hs, i, sweeps, new_sweep, heap, cells) ==
    IF i > Len(hs) THEN sweeps
    ELSE MarkRoots(hs, i + 1, MarkRoot(hs[i], sweeps, new_sweep, heap, cells),
                   new_sweep, heap, cells)

\* the rooted handles the mark phase keeps and traces (strong_count > 1)
RootedHeld(heap) == {h \in DOMAIN heap.rooted : heap.rooted[h] > 1}

\* the mark phase of clean_excluding: the rooted handles, then the excluded
mark_all(heap, kept, excluding, cells, new_sweep) ==
    MarkRoots(SelectSeq(excluding, LAMBDA h : h \in heap.objects), 1,
              MarkRoots(SetToSeq(kept), 1, heap.object_sweeps, new_sweep,
                        heap, cells),
              new_sweep, heap, cells)

\* a sweep that also keeps what the collection before this one marked
sweep_lagging(heap, kept, sweeps, new_sweep) ==
    LET live == {h \in heap.objects :
                    h \in DOMAIN sweeps /\ sweeps[h] + 1 >= new_sweep}
    IN [heap EXCEPT !.rooted = Drop(@, (DOMAIN @) \ kept),
                    !.object_sweeps = Drop(sweeps, heap.objects \ live),
                    !.objects = live,
                    !.store = Drop(@, heap.objects \ live),
                    !.last_sweep = new_sweep]

\* the sweep phase of clean_excluding
sweep(heap, kept, sweeps, new_sweep) ==
    LET live == {h \in heap.objects : h \in DOMAIN sweeps /\ sweeps[h] = new_sweep}
    IN [heap EXCEPT !.rooted = Drop(@, (DOMAIN @) \ kept),
                    !.object_sweeps = Drop(sweeps, heap.objects \ live),
                    !.objects = live,
                    !.store = Drop(@, heap.objects \ live),
                    !.last_sweep = new_sweep]

\* Heap::clean_excluding; excluding is a sequence of handles
clean_excluding(heap, excluding, cells) ==
    sweep(heap, RootedHeld(heap),
          mark_all(heap, RootedHeld(heap), excluding, cells, heap.last_sweep + 1),
          heap.last_sweep + 1)

\* ------------------------------------------------------------ opcode bytes
OP_Return == 0
OP_Constant == 1
OP_Print == 2
OP_Add == 3
OP_Sub == 4
OP_Mul == 5
OP_Div == 6
OP_Not == 7
OP_Neg == 8
OP_Equal == 9
OP_Greater == 10
OP_Less == 11
OP_Jump == 12
OP_JumpIfFalse == 13
OP_Pop == 14
OP_GetGlobal == 15
OP_SetGlobal == 16
OP_GetLocal == 17
OP_SetLocal == 18
OP_Immediate == 19
OP_Nil == 20
OP_True == 21
OP_False == 22
OP_Call == 23
OP_Loop == 32
OP_CloseUpValue == 33
OP_GetUpValue == 34
OP_SetUpValue == 35
OP_Closure == 36
OP_DefineGlobal == 37
OP_List == 38
OP_Rem == 39
OP_Dict == 40
OP_SetElement == 41
OP_GetElement == 48
OP_Pow == 49
MAX_CALL_ARGS == 8

\* ------------------------------------------------- f64 <-> 8 bytes (IEEE 754)
RECURSIVE Pow2(_)
Pow2(k) == IF k = 0 THEN 1 ELSE 2 * Pow2(k - 1)

Abs(n) == IF n < 0 THEN -n ELSE n
Log2(n) == CHOOSE e \in 0..20 : Pow2(e) <= n /\ n < Pow2(e + 1)

\* the immediate written without its sign bit
F64BytesUnsigned(n) ==
    IF n = 0 THEN <<0, 0, 0, 0, 0, 0, 0, 0>>
    ELSE LET a == Abs(n)
             e == Log2(a)
             ex == e + 1023
             frac == (a - Pow2(e)) * Pow2(20 - e)
         IN <<0, 0, 0, 0, frac % 256, (frac \div 256) % 256,
              (ex % 16) * 16 + frac \div 65536, ex \div 16>>

\* Value::float(n).to_raw() as written by Chunk::write_u64 (little-endian).
\* |n| < 2^21, so only the top 20 bits of the mantissa can be set.
F64Bytes(n) ==
    IF n = 0 THEN <<0, 0, 0, 0, 0, 0, 0, 0>>
    ELSE LET a == Abs(n)
             e == Log2(a)
             ex == e + 1023
             frac == (a - Pow2(e)) * Pow2(20 - e)
             sign == IF n < 0 THEN 128 ELSE 0
         IN <<0, 0, 0, 0, frac % 256, (frac \div 256) % 256,
              (ex % 16) * 16 + frac \div 65536, sign + ex \div 16>>

\* Value::from_raw(Chunk::read_u64(..)).decode() for the 8 bytes b
ValueFromBytes(b) ==
    LET hi == b[8] % 128
        ex == hi * 16 + b[7] \div 16
        frac == (b[7] % 16) * 65536 + b[6] * 256 + b[5]
        low == b[1] + b[2] + b[3] + b[4]
    IN IF hi = 127 /\ b[7] >= 252
       THEN (IF b[8] >= 128 THEN object(0)
             ELSE CASE b[1] % 8 = 1 -> truelit
                    [] b[1] % 8 = 2 -> falselit
                    [] OTHER -> nil)
       ELSE IF ex = 0 /\ frac = 0 /\ low = 0 THEN Float(0)
       ELSE LET e == ex - 1023
                a == Pow2(e) + frac \div Pow2(20 - e)
            IN Float(IF b[8] >= 128 THEN -a ELSE a)

\* ----------------------------------------------------------------------- IR
NONE == -1
Binding_global(name) == [name |-> name, depth |-> NONE, function_depth |-> 0]
Binding_local(name, depth, function_depth) ==
    [name |-> name, depth |-> depth, function_depth |-> function_depth]
is_upvalue(var) == var.depth # NONE /\ var.depth > var.function_depth

NoExpr == [k |-> "None"]
Number(n) == [k |-> "Literal", t |-> "Number", n |-> n]
String(s) == [k |-> "Literal", t |-> "String", s |-> s]
Boolean(b) == [k |-> "Literal", t |-> "Boolean", b |-> b]
NilLit == [k |-> "Literal", t |-> "Nil"]
Var(b) == [k |-> "Var", var |-> b]
Bind(b, rhs) == [k |-> "Bind", var |-> b, rhs |-> rhs]
BindGlobal(b, rhs) == [k |-> "BindGlobal", var |-> b, rhs |-> rhs]
Mutate(lhs, rhs) == [k |-> "Mutate", lhs |-> lhs, rhs |-> rhs]
Binary(lhs, op, rhs) == [k |-> "Binary", lhs |-> lhs, op |-> op, rhs |-> rhs]
Unary(op, e) == [k |-> "Unary", op |-> op, e |-> e]
Call(callee, args) == [k |-> "Call", callee |-> callee, args |-> args]
FnBody(b, params, inner) == [var |-> b, params |-> params, method |-> FALSE, inner |-> inner]
Function(b, params, inner) == [k |-> "Function", f |-> FnBody(b, params, inner)]
AnonFunction(b, params, inner) == [k |-> "AnonFunction", f |-> FnBody(b, params, inner)]
Return(e) == [k |-> "Return", e |-> e]
If(cond, then, els) == [k |-> "If", cond |-> cond, then |-> then, els |-> els]
While(cond, body) == [k |-> "While", cond |-> cond, body |-> body]
List(content) == [k |-> "List", content |-> content]
Dict(keys, values) == [k |-> "Dict", keys |-> keys, values |-> values]
SetElement(list, index, value) ==
    [k |-> "SetElement", list |-> list, index |-> index, value |-> value]
GetElement(list, index) == [k |-> "GetElement", list |-> list, index |-> index]
Block(body) == [k |-> "Block", body |-> body]
Break == [k |-> "Break"]
PopExpr == [k |-> "Pop"]

\* ----------------------------------------------------------------- compiler
\* A compiler record c: heap, states (outer first), locals_cache, debug (the
\* build has overflow checks and debug assertions), err (the panic message,
\* "" if none) and stmt_bounds (the code offset after each top-level
\* statement, kept for the stack-discipline properties).  Every operator
\* returns its argument unchanged once err is set: a panic unwinds.
Top(c) == c.states[Len(c.states)]
SetTop(c, st) == [c EXCEPT !.states[Len(c.states)] = st]
Panic(c, msg) == [c EXCEPT !.err = msg]
Failed(c) == c.err # ""
AsU8(n) == n % 256

\* unsigned comparison of two usize values (negative = wrapped)
ULess(a, b) == IF (a < 0) = (b < 0) THEN a < b ELSE b < 0

CompileState_new(method, reserved, name, arity, scope_depth) ==
    [locals |-> << [name |-> reserved, depth |-> 1,
                    captured |-> FALSE, reserved |-> TRUE] >>,
     upvalues |-> <<>>, name |-> name, arity |-> arity,
     code |-> <<>>, constants |-> <<>>,
     scope_depth |-> scope_depth, breaks |-> <<>>, method |-> method,
     bind_sites |-> <<>>, closure_sites |-> <<>>, capture_obs |-> <<>>]

Compiler_new(heap, debug) ==
    [heap |-> heap, states |-> <<>>, locals_cache |-> <<>>,
     debug |-> debug, err |-> "", stmt_bounds |-> <<>>]

ip(c) == Len(Top(c).code)

emit_bytes(c, bytes) ==
    IF Failed(c) THEN c
    ELSE SetTop(c, [Top(c) EXCEPT !.code = @ \o bytes])

emit(c, op) == emit_bytes(c, <<op>>)
emit_byte(c, byte) == emit_bytes(c, <<byte>>)

\* CompileState::add_local on the current state
add_local(c, var, depth) ==
    IF Failed(c) THEN c
    ELSE LET st == Top(c)
             d1 == depth - 1
             d == st.scope_depth - d1
         IN IF c.debug /\ (d1 < 0 \/ (d1 >= 0 /\ d < 0))
            THEN Panic(c, "attempt to subtract with overflow")
            ELSE IF Len(st.locals) = U8_MAX
            THEN Panic(c, "local variable overflow")
            ELSE SetTop(c, [st EXCEPT !.locals = Append(@,
                     [name |-> var, depth |-> d,
                      captured |-> FALSE, reserved |-> FALSE])])

MatchingLocals(st, var) == {i \in 1..Len(st.locals) : st.locals[i].name = var}
MaxOf(S) == CHOOSE x \in S : \A y \in S : y <= x
MinOf(S) == CHOOSE x \in S : \A y \in S : x <= y

\* CompileState::resolve_local on the current state: [c, r]
resolve_local(c, var) ==
    IF Failed(c) THEN [c |-> c, r |-> 0]
    ELSE LET m == MatchingLocals(Top(c), var)
         IN IF m = {} THEN [c |-> Panic(c, "TODO: unresolved var"), r |-> 0]
            ELSE [c |-> c, r |-> AsU8(MaxOf(m) - 1)]

\* capture_local finding the local and leaving its flag alone
capture_local_unmarked(c, k, var) ==
    LET m == MatchingLocals(c.states[k], var)
    IN IF m = {} THEN [c |-> c, found |-> FALSE, r |-> 0]
       ELSE [c |-> c, found |-> TRUE, r |-> AsU8(MaxOf(m) - 1)]

\* CompileState::capture_local on states[k]: [c, found, r]
capture_local(c, k, var) ==
    LET m == MatchingLocals(c.states[k], var)
    IN IF m = {} THEN [c |-> c, found |-> FALSE, r |-> 0]
       ELSE [c |-> [c EXCEPT !.states[k].locals[MaxOf(m)].captured = TRUE],
             found |-> TRUE, r |-> AsU8(MaxOf(m) - 1)]

\* CompileState::add_upvalue on states[k]: [c, r]
add_upvalue(c, k, index, is_local) ==
    IF Failed(c) THEN [c |-> c, r |-> 0]
    ELSE LET ups == c.states[k].upvalues
             m == {i \in 1..Len(ups) :
                      ups[i].index = index /\ ups[i].is_local = is_local}
         IN IF m # {} THEN [c |-> c, r |-> AsU8(MinOf(m) - 1)]
            ELSE IF Len(ups) = U8_MAX
            THEN [c |-> Panic(c, "too many upvalues, not cool"), r |-> 0]
            ELSE [c |-> [c EXCEPT !.states[k].upvalues =
                            Append(@, [index |-> index, is_local |-> is_local])],
                  r |-> AsU8(Len(ups))]

\* CompileState::end_scope on the current state
end_scope(c) ==
    IF Failed(c) THEN c
    ELSE LET st == Top(c)
             last == st.scope_depth
             keep(l) == ULess(l.depth, last) \/ l.reserved
             gone == SelectSeq(st.locals, LAMBDA l : ~keep(l))
             ops == [i \in 1..Len(gone) |->
                        IF gone[i].captured THEN OP_CloseUpValue ELSE OP_Pop]
         IN IF c.debug /\ last = 0
            THEN Panic(c, "attempt to subtract with overflow")
            ELSE SetTop(c, [st EXCEPT
                     !.scope_depth = last - 1,
                     !.locals = SelectSeq(st.locals, keep),
                     !.code = @ \o Reverse(ops)])

\* Chunk::add_constant on the current chunk: [c, r]
add_constant(c, constant) ==
    IF Failed(c) THEN [c |-> c, r |-> 0]
    ELSE LET st == Top(c)
             m == {i \in 1..Len(st.constants) : st.constants[i] = constant}
             n == Len(st.constants) + 1
         IN IF m # {} THEN [c |-> c, r |-> AsU8(MinOf(m) - 1)]
            ELSE IF Len(st.constants) = MAX_CONSTANTS
            THEN [c |-> Panic(c, "A chunk cannot have more than 1028 constants"),
                  r |-> 0]
            ELSE IF AsU8(n) = 0 /\ c.debug
            THEN [c |-> Panic(c, "attempt to subtract with overflow"), r |-> 0]
            ELSE [c |-> SetTop(c, [st EXCEPT !.constants = Append(@, constant)]),
                  r |-> (AsU8(n) + 255) % 256]

IsStringObj(heap, val, s) ==
    /\ IsObj(val)
    /\ contains(heap, val.v)
    /\ heap.store[val.v].kind = "String"
    /\ heap.store[val.v].str = s

\* string_constant without the search of the pool
string_constant_fresh(c, s) ==
    IF Failed(c) THEN [c |-> c, r |-> 0]
    ELSE Let(insert(c.heap, [kind |-> "String", str |-> s]),
             LAMBDA h1 :
                add_constant([c EXCEPT !.heap = into_handle(h1, NewHandle(h1))],
                             object(NewHandle(h1))))

\* Chunk::string_constant on the current chunk: [c, r]
string_constant(c, s) ==
    IF Failed(c) THEN [c |-> c, r |-> 0]
    ELSE LET st == Top(c)
             m == {i \in 1..Len(st.constants) :
                      IsStringObj(c.heap, st.constants[i], s)}
         IN IF m # {} THEN [c |-> c, r |-> AsU8(MinOf(m) - 1)]
            ELSE Let(insert(c.heap, [kind |-> "String", str |-> s]),
                     LAMBDA h1 :
                        add_constant([c EXCEPT !.heap = into_handle(h1, NewHandle(h1))],
                                     object(NewHandle(h1))))

RECURSIVE FindCapture(_, _, _)
\* the reverse walk of resolve_upvalue over states[..end]: [c, found, r, k]
FindCapture(c, k, name) ==
    IF k = 0 THEN [c |-> c, found |-> FALSE, r |-> 0, k |-> 0]
    ELSE LET res == capture_local(c, k, name)
         IN IF res.found
            THEN [c |-> res.c, found |-> TRUE, r |-> res.r, k |-> k]
            ELSE FindCapture(c, k - 1, name)

RECURSIVE ThreadUpvalue(_, _)
\* the loop of resolve_upvalue over states[scope + 2..]: [c, r]
ThreadUpvalue(cr, k) ==
    IF k > Len(cr.c.states) THEN cr
    ELSE ThreadUpvalue(add_upvalue(cr.c, k, cr.r, FALSE), k + 1)

\* whether local `index` of a state exists and is marked captured
LocalCaptured(st, index) ==
    index < Len(st.locals) /\ st.locals[index + 1].captured

\* what resolve_upvalue leaves behind once states[k + 1] has its upvalue for
\* local `index` of states[k]: the local's index and its flag
note_capture(cr, k, index) ==
    IF Failed(cr.c) THEN cr
    ELSE [c |-> [cr.c EXCEPT !.states[k + 1].capture_obs =
                    Append(@, [at |-> "add", index |-> index,
                               captured |-> LocalCaptured(cr.c.states[k], index)])],
          r |-> cr.r]

\* Compiler::resolve_upvalue: [c, r]
resolve_upvalue(c, name) ==
    IF Failed(c) THEN [c |-> c, r |-> 0]
    ELSE Let(FindCapture(c, Len(c.states) - 1, name), LAMBDA f :
            IF ~f.found
            THEN [c |-> Panic(c, "upvalue marked during resolution, but wasn't found"),
                  r |-> 0]
            ELSE Let(note_capture(add_upvalue(f.c, f.k + 1, f.r, TRUE), f.k, f.r),
                     LAMBDA cr :
                        IF f.k >= Len(c.states) - 1 THEN cr
                        ELSE ThreadUpvalue(cr, f.k + 2)))

\* emit an opcode followed by the index a [c, r] result carries
EmitWithIndex(c, op, cr) == emit_bytes(cr.c, <<op, cr.r>>)

\* emit_byte of the index a [c, r] result carries
emit_index(cr) == emit_byte(cr.c, cr.r)

\* Compiler::var_get
var_get(c, var) ==
    IF Failed(c) THEN c
    ELSE IF is_upvalue(var)
    THEN EmitWithIndex(c, OP_GetUpValue, resolve_upvalue(c, var.name))
    ELSE IF var.depth = NONE
    THEN emit_index(string_constant(emit(c, OP_GetGlobal), var.name))
    ELSE EmitWithIndex(c, OP_GetLocal, resolve_local(c, var.name))

\* the place a local bind leaves its value: the code offset after the
\* initializer and the index add_local gave the local
note_bind_site(c) ==
    IF Failed(c) THEN c
    ELSE SetTop(c, [Top(c) EXCEPT !.bind_sites = Append(@,
             [ip |-> Len(Top(c).code), idx |-> Len(Top(c).locals) - 1])])

\* Compiler::var_define (constant is always None in this code base)
var_define(c, var) ==
    IF Failed(c) THEN c
    ELSE IF var.depth # NONE
    THEN note_bind_site(resolve_local(add_local(c, var.name, var.depth), var.name).c)
    ELSE emit_index(string_constant(emit(c, OP_DefineGlobal), var.name))

\* Compiler::set_global
set_global(c, name) == emit_index(string_constant(emit(c, OP_SetGlobal), name))

\* Compiler::emit_number_literal
emit_number_literal(c, n) == emit_bytes(emit(c, OP_Immediate), F64Bytes(n))

\* Compiler::emit_constant
emit_constant(c, lit) ==
    CASE lit.t = "Nil" -> emit(c, OP_Nil)
      [] lit.t = "Boolean" -> emit(c, IF lit.b THEN OP_True ELSE OP_False)
      [] lit.t = "Number" -> emit_number_literal(c, lit.n)
      [] lit.t = "String" ->
            EmitWithIndex(c, OP_Constant, string_constant(c, lit.s))

\* Compiler::emit_jze / emit_jmp: the offset of the placeholder is ip(c) - 2
emit_jze(c) == emit_bytes(c, <<OP_JumpIfFalse, 255, 255>>)
emit_jmp(c) == emit_bytes(c, <<OP_Jump, 255, 255>>)

\* Compiler::patch_jmp
patch_jmp(c, idx) ==
    IF Failed(c) THEN c
    ELSE LET jmp == ip(c)
         IN SetTop(c, [Top(c) EXCEPT
                !.code[idx + 1] = jmp % 256,
                !.code[idx + 2] = (jmp \div 256) % 256])

RECURSIVE patch_jmps(_, _, _)
patch_jmps(c, idxs, i) ==
    IF i > Len(idxs) THEN c
    ELSE patch_jmps(patch_jmp(c, idxs[i]), idxs, i + 1)

\* an emit_loop that leaves out the three bytes of the Loop instruction
emit_loop_short(c, start) ==
    IF Failed(c) THEN c
    ELSE LET sub == ip(c) - start
         IN emit_bytes(c, <<OP_Loop, sub % 256, (sub \div 256) % 256>>)

\* Compiler::emit_loop
emit_loop(c, start) ==
    IF Failed(c) THEN c
    ELSE LET sub == ip(c) - start + 3
         IN emit_bytes(c, <<OP_Loop, sub % 256, (sub \div 256) % 256>>)

\* Compiler::start_function
start_function(c, method, name, arity, scope) ==
    IF Failed(c) THEN c
    ELSE [c EXCEPT !.states = Append(@, CompileState_new(method,
              IF method THEN <<"s", "e", "l", "f">> ELSE <<>>,
              name, arity, scope))]

\* the is_local upvalues of the state end_function pops, each with the flag
\* of the enclosing state's local it names
EndObs(c) ==
    LET ups == SelectSeq(Top(c).upvalues, LAMBDA u : u.is_local)
    IN [i \in 1..Len(ups) |->
          [at |-> "end", index |-> ups[i].index,
           captured |-> /\ Len(c.states) >= 2
                        /\ LocalCaptured(c.states[Len(c.states) - 1], ups[i].index)]]

\* FunctionBuilder::build of a state
BuildFunction(st) ==
    [kind |-> "Function", name |-> st.name, arity |-> st.arity,
     code |-> st.code, constants |-> st.constants,
     upvalue_count |-> Len(st.upvalues),
     bind_sites |-> st.bind_sites, closure_sites |-> st.closure_sites,
     capture_obs |-> st.capture_obs]

\* Compiler::end_function: [c, f]
end_function(c) ==
    IF Failed(c) THEN [c |-> c, f |-> BuildFunction(Top(c))]
    ELSE [c |-> [c EXCEPT !.states = Front(@),
                          !.locals_cache = @ \o Top(c).locals],
          f |-> BuildFunction([Top(c) EXCEPT !.capture_obs = @ \o EndObs(c)])]

RECURSIVE compile_expr(_, _)
RECURSIVE compile_exprs(_, _, _)
RECURSIVE compile_pairs(_, _, _, _)
RECURSIVE function_decl(_, _)
RECURSIVE emit_return(_, _)

\* `for expr in exprs { self.compile_expr(expr) }`
compile_exprs(c, exprs, i) ==
    IF i > Len(exprs) THEN c
    ELSE compile_exprs(compile_expr(c, exprs[i]), exprs, i + 1)

\* the Dict arm's loop over keys.iter().zip(values.iter())
compile_pairs(c, keys, values, i) ==
    IF i > Len(keys) \/ i > Len(values) THEN c
    ELSE compile_pairs(compile_expr(compile_expr(c, keys[i]), values[i]),
                       keys, values, i + 1)

RECURSIVE DeclParams(_, _, _)
\* the parameter loop of function_decl
DeclParams(c, params, i) ==
    IF i > Len(params) THEN c
    ELSE DeclParams(resolve_local(add_local(c, params[i].name, 1),
                                  params[i].name).c,
                    params, i + 1)

RECURSIVE PairBytes(_)
\* the (is_local, index) bytes function_decl writes for the upvalues
PairBytes(ups) ==
    IF ups = <<>> THEN <<>>
    ELSE <<IF ups[1].is_local THEN 1 ELSE 0, ups[1].index>> \o PairBytes(Tail(ups))

\* the bytes function_decl writes from the Closure opcode on: [c, r], r the
\* constant index
ClosureOperands(c, upvalues, handle) ==
    Let(add_constant(emit_bytes(emit(c, OP_Closure), PairBytes(upvalues)),
                     object(handle)),
        LAMBDA k : [c |-> emit_byte(k.c, k.r), r |-> k.r])

\* where function_decl wrote a Closure instruction: the opcode, the operand
\* pairs, the constant index byte and the next instruction
note_closure_site(op_ip, upvalues, handle, co) ==
    IF Failed(co.c) THEN co.c
    ELSE SetTop(co.c, [Top(co.c) EXCEPT !.closure_sites = Append(@,
             [op_ip |-> op_ip, n |-> Len(upvalues),
              pair_ips |-> [i \in 1..Len(upvalues) |-> op_ip + 2 * i - 1],
              const_ip |-> op_ip + 1 + 2 * Len(upvalues),
              end_ip |-> op_ip + 2 + 2 * Len(upvalues),
              const_idx |-> co.r, fn |-> handle])])

\* the tail of function_decl: the function goes to the heap, the Closure
\* instruction to the enclosing chunk
emit_closure(ef, upvalues) ==
    Let(insert(ef.c.heap, ef.f), LAMBDA h1 :
        note_closure_site(ip(ef.c), upvalues, NewHandle(h1),
            ClosureOperands([ef.c EXCEPT !.heap = into_handle(h1, NewHandle(h1))],
                            upvalues, NewHandle(h1))))

\* Compiler::function_decl
function_decl(c, f) ==
    IF Failed(c) THEN c
    ELSE Let(end_scope(compile_exprs(
                 DeclParams(start_function(c, f.method, f.var.name,
                                           AsU8(Len(f.params)), 1),
                            f.params, 1),
                 f.inner, 1)),
             LAMBDA c4 : IF Failed(c4) THEN c4
                         ELSE emit_closure(end_function(c4), Top(c4).upvalues))

\* Compiler::emit_return
emit_return(c, ret) ==
    IF Failed(c) THEN c
    ELSE IF Top(c).name = <<"i", "n", "i", "t">> /\ Top(c).method
    THEN emit(emit_bytes(c, <<OP_GetLocal, 0>>), OP_Return)
    ELSE IF ret.k # "None" THEN emit(compile_expr(c, ret), OP_Return)
    ELSE emit(emit(c, OP_Nil), OP_Return)

\* the opcodes of the arithmetic and ordering arm of Binary
BinaryOpBytes(op) ==
    CASE op = "Add" -> <<OP_Add>>
      [] op = "Sub" -> <<OP_Sub>>
      [] op = "Rem" -> <<OP_Rem>>
      [] op = "Mul" -> <<OP_Mul>>
      [] op = "Div" -> <<OP_Div>>
      [] op = "Equal" -> <<OP_Equal>>
      [] op = "Gt" -> <<OP_Greater>>
      [] op = "Lt" -> <<OP_Less>>
      [] op = "Pow" -> <<OP_Pow>>
      [] op = "GtEqual" -> <<OP_Less, OP_Not>>
      [] op = "LtEqual" -> <<OP_Greater, OP_Not>>
      [] op = "NEqual" -> <<OP_Equal, OP_Not>>
      [] OTHER -> <<>>

\* the Mutate arm
compile_mutate(c, e) ==
    IF e.lhs.k # "Var" THEN Panic(c, "can't mutate non-variable")
    ELSE Let(compile_expr(c, e.rhs), LAMBDA c1 :
            IF is_upvalue(e.lhs.var)
            THEN EmitWithIndex(c1, OP_SetUpValue, resolve_upvalue(c1, e.lhs.var.name))
            ELSE IF e.lhs.var.depth = NONE THEN set_global(c1, e.lhs.var.name)
            ELSE EmitWithIndex(c1, OP_SetLocal, resolve_local(c1, e.lhs.var.name)))

\* the If arm
compile_if(c, e) ==
    Let(emit_jze(compile_expr(c, e.cond)), LAMBDA c1 :
    Let(emit_jmp(compile_expr(emit(c1, OP_Pop), e.then)), LAMBDA c2 :
    Let(emit(patch_jmp(c2, ip(c1) - 2), OP_Pop), LAMBDA c3 :
        patch_jmp(IF e.els.k # "None" THEN compile_expr(c3, e.els) ELSE c3,
                  ip(c2) - 2))))

\* `for b in self.state_mut().breaks() { self.patch_jmp(b) }`
patch_breaks(c) ==
    IF Failed(c) THEN c
    ELSE patch_jmps(SetTop(c, [Top(c) EXCEPT !.breaks = <<>>]), Top(c).breaks, 1)

\* the While arm
compile_while(c, e) ==
    Let(emit_jze(compile_expr(c, e.cond)), LAMBDA c1 :
        patch_breaks(emit(patch_jmp(emit_loop(compile_expr(emit(c1, OP_Pop), e.body),
                                              ip(c)),
                                    ip(c1) - 2),
                          OP_Pop)))

\* the Break arm
compile_break(c) ==
    Let(emit_jmp(c), LAMBDA c1 :
        IF Failed(c1) THEN c1
        ELSE SetTop(c1, [Top(c1) EXCEPT !.breaks = Append(@, ip(c1) - 2)]))

\* the Binary arm
compile_binary(c, e) ==
    CASE e.op = "And" ->
            Let(emit_jze(compile_expr(c, e.lhs)), LAMBDA c1 :
                patch_jmp(compile_expr(emit(c1, OP_Pop), e.rhs), ip(c1) - 2))
      [] e.op = "Or" ->
            Let(emit_jze(compile_expr(c, e.lhs)), LAMBDA c1 :
            Let(emit_jmp(c1), LAMBDA c2 :
                patch_jmp(compile_expr(emit(patch_jmp(c2, ip(c1) - 2), OP_Pop),
                                       e.rhs),
                          ip(c2) - 2)))
      [] e.op = "Index" ->
            emit(compile_expr(compile_expr(c, e.rhs), e.lhs), OP_GetElement)
      [] OTHER ->
            emit_bytes(compile_expr(compile_expr(c, e.lhs), e.rhs),
                       BinaryOpBytes(e.op))

\* Compiler::compile_expr
compile_expr(c, e) ==
    IF Failed(c) THEN c
    ELSE CASE e.k = "Literal" -> emit_constant(c, e)
           [] e.k = "Unary" ->
                emit(compile_expr(c, e.e), IF e.op = "Neg" THEN OP_Neg ELSE OP_Not)
           [] e.k = "Var" -> var_get(c, e.var)
           [] e.k = "Mutate" -> compile_mutate(c, e)
           [] e.k = "Return" -> emit_return(c, e.e)
           [] e.k = "Function" -> var_define(function_decl(c, e.f), e.f.var)
           [] e.k = "AnonFunction" -> function_decl(c, e.f)
           [] e.k = "Not" -> emit(compile_expr(c, e.e), OP_Not)
           [] e.k = "Neg" -> emit(compile_expr(c, e.e), OP_Neg)
           [] e.k = "Call" ->
                IF Len(e.args) > MAX_CALL_ARGS
                THEN Panic(c, "That's a lot of arguments")
                ELSE emit(compile_exprs(compile_expr(c, e.callee), e.args, 1),
                          OP_Call + AsU8(Len(e.args)))
           [] e.k = "List" ->
                emit_bytes(compile_exprs(c, Reverse(e.content), 1),
                           <<OP_List, AsU8(Len(e.content))>>)
           [] e.k = "SetElement" ->
                emit(compile_expr(compile_expr(compile_expr(c, e.value),
                                               e.index), e.list),
                     OP_SetElement)
           [] e.k = "Dict" ->
                emit_bytes(compile_pairs(c, e.keys, e.values, 1),
                           <<OP_Dict, AsU8(Len(e.keys))>>)
           [] e.k = "If" -> compile_if(c, e)
           [] e.k = "While" -> compile_while(c, e)
           [] e.k = "Break" -> compile_break(c)
           [] e.k = "Pop" -> emit(c, OP_Pop)
           [] e.k = "Binary" -> compile_binary(c, e)
           [] e.k = "Bind" -> var_define(compile_expr(c, e.rhs), e.var)
           [] e.k = "BindGlobal" -> var_define(compile_expr(c, e.rhs), e.var)
           [] e.k = "Block" -> compile_exprs(c, e.body, 1)
           [] OTHER -> Panic(c, "not yet implemented")

RECURSIVE compile_stmts(_, _, _)
\* the statement loop of Compiler::compile, noting the offset after each
compile_stmts(c, exprs, i) ==
    IF i > Len(exprs) \/ Failed(c) THEN c
    ELSE Let(compile_expr(c, exprs[i]), LAMBDA c1 :
            compile_stmts([c1 EXCEPT !.stmt_bounds = Append(@, ip(c1))],
                          exprs, i + 1))

ZubName == <<"<", "z", "u", "b", ">">>

\* Compiler::compile: [c, f]
compile(c, exprs) ==
    end_function(emit_return(
        compile_stmts(start_function(c, FALSE, ZubName, 0, 0), exprs, 1),
        NoExpr))

\* ----------------------------------------------------------------------- VM
\* A VM record: the fields of struct VM (stack, frames, globals,
\* open_upvalues, heap, next_gc), the upvalue cells, the build (debug), how
\* the process stands (status: "idle" no exec in progress, "running" inside
\* VM::run, "panic" a Rust panic, "exit" runtime_error's process::exit, "ub"
\* undefined behaviour was executed, so anything may follow) with its
\* message, and the event logs the properties read (gc_log, closure_log,
\* close_log, frame_seq).  A handler returns its argument unchanged once the
\* status is no longer "running".
Running(vm) == vm.status = "running"
Fail(vm, status, msg) == [vm EXCEPT !.status = status, !.msg = msg]
RustPanic(vm, msg) == Fail(vm, "panic", msg)

\* VM::runtime_error
runtime_error(vm, msg) == IF Running(vm) THEN Fail(vm, "exit", msg) ELSE vm

\* VM::push
push_early(vm, value) ==
    IF ~Running(vm) THEN vm
    ELSE IF Len(vm.stack) = 2 THEN RustPanic(vm, "STACK OVERFLOW")
    ELSE [vm EXCEPT !.stack = Append(@, value)]

push(vm, value) ==
    IF ~Running(vm) THEN vm
    ELSE IF Len(vm.stack) = STACK_SIZE THEN RustPanic(vm, "STACK OVERFLOW")
    ELSE [vm EXCEPT !.stack = Append(@, value)]

\* VM::pop: [vm, r]
pop(vm) ==
    IF ~Running(vm) THEN [vm |-> vm, r |-> nil]
    ELSE IF vm.stack = <<>>
    THEN [vm |-> RustPanic(vm, "stack to be nonempty"), r |-> nil]
    ELSE [vm |-> [vm EXCEPT !.stack = Front(@)], r |-> Last(vm.stack)]

\* VM::peek: [vm, r]
peek(vm) ==
    IF ~Running(vm) THEN [vm |-> vm, r |-> nil]
    ELSE IF vm.stack = <<>>
    THEN [vm |-> RustPanic(vm, "stack to be nonempty"), r |-> nil]
    ELSE [vm |-> vm, r |-> Last(vm.stack)]

\* the debug_assert!(self.contains(handle)) of Heap::get_unchecked and
\* get_mut_unchecked, and the dangling read that follows without it
deref_check(vm, h) ==
    IF ~Running(vm) \/ contains(vm.heap, h) THEN vm
    ELSE IF vm.debug THEN RustPanic(vm, "assertion failed: self.contains(handle)")
    ELSE Fail(vm, "ub", "read of a freed object")

\* the object a live handle refers to
deref(vm, h) == vm.heap.store[h]

frame(vm) == Last(vm.frames)

\* CallFrame::with_chunk: the frame reads its closure through the raw pointer
chunk_check(vm) ==
    IF ~Running(vm) THEN vm
    ELSE IF vm.frames = <<>> THEN RustPanic(vm, "frames to be nonempty")
    ELSE IF ~contains(vm.heap, frame(vm).closure)
    THEN Fail(vm, "ub", "frame closure was freed")
    ELSE IF deref(vm, frame(vm).closure).kind # "Closure"
    THEN RustPanic(vm, "closure reference by construction")
    ELSE vm

current_chunk(vm) == deref(vm, frame(vm).closure).function

\* `self.code[ip]` with the ip already advanced: [vm, r]
code_at(vm) ==
    IF ~Running(vm) THEN [vm |-> vm, r |-> 0]
    ELSE IF frame(vm).ip >= Len(current_chunk(vm).code)
    THEN [vm |-> RustPanic(vm, "index out of bounds"), r |-> 0]
    ELSE [vm |-> [vm EXCEPT !.frames[Len(vm.frames)].ip = @ + 1],
          r |-> current_chunk(vm).code[frame(vm).ip + 1]]

\* CallFrame::read_byte: [vm, r]
read_byte(vm) == code_at(chunk_check(vm))

\* Chunk::read_u16 copies two bytes from &self.code[idx]: [vm, r]
code_u16(vm) ==
    IF ~Running(vm) THEN [vm |-> vm, r |-> 0]
    ELSE IF frame(vm).ip >= Len(current_chunk(vm).code)
    THEN [vm |-> RustPanic(vm, "index out of bounds"), r |-> 0]
    ELSE IF frame(vm).ip + 2 > Len(current_chunk(vm).code)
    THEN [vm |-> Fail(vm, "ub", "read past the end of the code"), r |-> 0]
    ELSE [vm |-> [vm EXCEPT !.frames[Len(vm.frames)].ip = @ + 2],
          r |-> current_chunk(vm).code[frame(vm).ip + 1]
                + 256 * current_chunk(vm).code[frame(vm).ip + 2]]

\* CallFrame::read_u16 (little-endian): [vm, r]
read_u16(vm) == code_u16(chunk_check(vm))

\* Chunk::read_u64 copies eight bytes from &self.code[idx]: [vm, r]
code_u64(vm) ==
    IF ~Running(vm) THEN [vm |-> vm, r |-> <<>>]
    ELSE IF frame(vm).ip >= Len(current_chunk(vm).code)
    THEN [vm |-> RustPanic(vm, "index out of bounds"), r |-> <<>>]
    ELSE IF frame(vm).ip + 8 > Len(current_chunk(vm).code)
    THEN [vm |-> Fail(vm, "ub", "read past the end of the code"), r |-> <<>>]
    ELSE [vm |-> [vm EXCEPT !.frames[Len(vm.frames)].ip = @ + 8],
          r |-> SubSeq(current_chunk(vm).code, frame(vm).ip + 1, frame(vm).ip + 8)]

\* CallFrame::read_u64: [vm, r], r the eight bytes in code order
read_u64(vm) == code_u64(chunk_check(vm))

\* Chunk::get_constant(idx).expect(..): [vm, r]
constant_at(vm, idx) ==
    IF ~Running(vm) THEN [vm |-> vm, r |-> nil]
    ELSE IF idx >= Len(current_chunk(vm).constants)
    THEN [vm |-> RustPanic(vm, "invalid constant index"), r |-> nil]
    ELSE [vm |-> vm, r |-> current_chunk(vm).constants[idx + 1]]

\* CallFrame::read_constant_at: [vm, r]
read_constant_at(vm, idx) == constant_at(chunk_check(vm), idx)

\* CallFrame::read_constant: [vm, r]
read_constant(vm) == Then(read_byte(vm), read_constant_at)

\* the roots without the globals
GcExcludeNoGlobals(vm, handle) ==
    LET closed == SelectSeq(vm.open_upvalues, LAMBDA u : ~vm.cells[u].open)
        upvalue_vals == [i \in 1..Len(closed) |-> vm.cells[closed[i]].val]
    IN SeqHandles(vm.stack) \o <<handle>> \o SeqHandles(upvalue_vals)

\* the roots VM::allocate hands to clean_excluding, in its order
GcExclude(vm, handle) ==
    LET closed == SelectSeq(vm.open_upvalues, LAMBDA u : ~vm.cells[u].open)
        upvalue_vals == [i \in 1..Len(closed) |-> vm.cells[closed[i]].val]
        global_vals == SetToSeq({vm.globals[g].v :
                                   g \in {x \in DOMAIN vm.globals : IsObj(vm.globals[x])}})
    IN SeqHandles(vm.stack) \o <<handle>> \o global_vals \o SeqHandles(upvalue_vals)

\* the second half of VM::allocate: the threshold test and the collection
collect(vm, h2, handle) ==
    IF HeapLen(h2) * OBJECT_SIZE >= vm.next_gc
    THEN Let(clean_excluding(h2, GcExclude(vm, handle), vm.cells), LAMBDA h3 :
            [vm |-> [vm EXCEPT !.heap = h3,
                               !.next_gc = @ * HEAP_GROWTH,
                               !.gc_log = [n |-> vm.gc_log.n + 1,
                                           before |-> h2,
                                           cells |-> vm.cells,
                                           stack |-> vm.stack,
                                           globals |-> vm.globals,
                                           open_upvalues |-> vm.open_upvalues,
                                           handle |-> handle,
                                           after |-> h3.objects]],
             r |-> handle])
    ELSE [vm |-> [vm EXCEPT !.heap = h2], r |-> handle]

\* VM::allocate: [vm, r], r the new handle
allocate(vm, obj) ==
    IF ~Running(vm) THEN [vm |-> vm, r |-> 0]
    ELSE Let(insert(vm.heap, obj), LAMBDA h1 :
            collect(vm, into_handle(h1, NewHandle(h1)), NewHandle(h1)))

\* UpValue::new pushed by capture_upvalue; frame_id notes the frame the slot
\* belongs to
NewCell(vm, offset) ==
    [open |-> TRUE, slot |-> offset, val |-> nil, frame_id |-> frame(vm).id]

\* VM::capture_upvalue: [vm, r], r the cell
capture_upvalue(vm, idx) ==
    IF ~Running(vm) THEN [vm |-> vm, r |-> 0]
    ELSE LET offset == frame(vm).stack_start + idx
             m == {i \in 1..Len(vm.open_upvalues) :
                      /\ vm.cells[vm.open_upvalues[i]].open
                      /\ vm.cells[vm.open_upvalues[i]].slot = offset}
             up == Len(vm.cells) + 1
         IN IF m # {} THEN [vm |-> vm, r |-> vm.open_upvalues[MaxOf(m)]]
            ELSE [vm |-> [vm EXCEPT !.cells = Append(@, NewCell(vm, offset)),
                                    !.open_upvalues = Append(@, up)],
                  r |-> up]

\* the test with the threshold taken the wrong way round
CloseTestBelow(cell, stack_end) == cell.open /\ cell.slot < stack_end

\* `up.get().map_err(|i| i >= stack_end).is_err()`: the comparison lands in
\* the Err payload and is_err() does not look at it
CloseTest(cell, stack_end) ==
    LET r == IF cell.open THEN [is_err |-> TRUE, e |-> cell.slot >= stack_end]
             ELSE [is_err |-> FALSE, e |-> FALSE]
    IN r.is_err

\* VM::close_upvalues
close_upvalues(vm, stack_end) ==
    IF ~Running(vm) THEN vm
    ELSE LET ups == SelectSeq(vm.open_upvalues,
                              LAMBDA u : CloseTest(vm.cells[u], stack_end))
             bad == {i \in 1..Len(ups) : vm.cells[ups[i]].slot >= Len(vm.stack)}
         IN IF bad # {} THEN RustPanic(vm, "index out of bounds")
            ELSE [vm EXCEPT
                    !.open_upvalues = ups,
                    !.cells = [c \in 1..Len(vm.cells) |->
                                 IF c \in Range(ups)
                                 THEN [vm.cells[c] EXCEPT
                                          !.open = FALSE,
                                          !.val = vm.stack[vm.cells[c].slot + 1]]
                                 ELSE vm.cells[c]],
                    !.close_log = [n |-> vm.close_log.n + 1,
                                   stack_end |-> stack_end,
                                   stack |-> vm.stack,
                                   cells |-> vm.cells]]

\* VM::close_upvalue
close_upvalue(vm) ==
    IF ~Running(vm) THEN vm
    ELSE IF vm.stack = <<>> THEN RustPanic(vm, "attempt to subtract with overflow")
    ELSE pop(close_upvalues(vm, Len(vm.stack) - 1)).vm

\* Closure::get(idx) on the frame's closure: [vm, r]
upvalue_at(vm, idx) ==
    IF ~Running(vm) THEN [vm |-> vm, r |-> 0]
    ELSE IF idx >= Len(deref(vm, frame(vm).closure).upvalues)
    THEN [vm |-> RustPanic(vm, "index out of bounds"), r |-> 0]
    ELSE [vm |-> vm, r |-> deref(vm, frame(vm).closure).upvalues[idx + 1]]

\* VM::current_closure
current_closure(vm) ==
    IF Running(chunk_check(vm)) THEN deref_check(chunk_check(vm), frame(vm).closure)
    ELSE chunk_check(vm)

\* VM::current_closure followed by Closure::get(idx): [vm, r], r the cell
closure_get(vm, idx) == upvalue_at(current_closure(vm), idx)

\* `self.stack[i]` as a read: [vm, r]
stack_at(vm, i) ==
    IF ~Running(vm) THEN [vm |-> vm, r |-> nil]
    ELSE IF i < 0 \/ i >= Len(vm.stack)
    THEN [vm |-> RustPanic(vm, "index out of bounds"), r |-> nil]
    ELSE [vm |-> vm, r |-> vm.stack[i + 1]]

\* `self.stack[i] = value`
stack_set(vm, i, value) ==
    IF ~Running(vm) THEN vm
    ELSE IF i < 0 \/ i >= Len(vm.stack) THEN RustPanic(vm, "index out of bounds")
    ELSE [vm EXCEPT !.stack[i + 1] = value]

\* push the value a [vm, r] result carries
push_r(p) == push(p.vm, p.r)

\* VM::get_upvalue
get_upvalue(vm) ==
    Then(read_byte(vm), LAMBDA v1, idx :
    Then(closure_get(v1, idx), LAMBDA v2, up :
        IF ~Running(v2) THEN v2
        ELSE IF v2.cells[up].open THEN push_r(stack_at(v2, v2.cells[up].slot))
        ELSE push(v2, v2.cells[up].val)))

\* VM::set_upvalue
set_upvalue(vm) ==
    Then(peek(vm), LAMBDA v0, value :
    Then(read_byte(v0), LAMBDA v1, idx :
    Then(closure_get(v1, idx), LAMBDA v2, up :
        IF ~Running(v2) THEN v2
        ELSE IF v2.cells[up].open THEN stack_set(v2, v2.cells[up].slot, value)
        ELSE [v2 EXCEPT !.cells[up].val = value])))

RECURSIVE read_upvalues(_, _, _)
\* the loop of VM::closure over 0..upvalue_count: [vm, r], r the cells
read_upvalues(vm, n, acc) ==
    IF n = 0 \/ ~Running(vm) THEN [vm |-> vm, r |-> acc]
    ELSE Then(read_byte(vm), LAMBDA v1, is_local :
         Then(read_byte(v1), LAMBDA v2, idx :
         Then(IF is_local > 0 THEN capture_upvalue(v2, idx)
              ELSE closure_get(v2, idx),
              LAMBDA v3, up : read_upvalues(v3, n - 1, Append(acc, up)))))

\* `.as_object().map(deref).and_then(as_function).expect(..)`: [vm, r]
expect_function(vm, value) ==
    IF ~Running(vm) THEN [vm |-> vm, r |-> value]
    ELSE IF ~IsObj(value)
    THEN [vm |-> RustPanic(vm, "closure expected function argument"), r |-> value]
    ELSE Let(deref_check(vm, value.v), LAMBDA v1 :
            IF ~Running(v1) THEN [vm |-> v1, r |-> value]
            ELSE IF deref(v1, value.v).kind # "Function"
            THEN [vm |-> RustPanic(v1, "closure expected function argument"),
                  r |-> value]
            ELSE [vm |-> v1, r |-> value])

\* the constant VM::closure decodes as its function: [vm, r]
closure_function(vm) == Then(read_constant(vm), expect_function)

\* what VM::closure decoded: the instruction (code and offset), where it
\* read the constant index, the function it instantiated, the operand
\* pairs it consumed and where the next instruction is decoded
note_closure(vm, value, v1, after) ==
    [after EXCEPT !.closure_log =
        [n |-> vm.closure_log.n + 1,
         ok |-> Running(after),
         function |-> deref(vm, frame(vm).closure).function,
         op_ip |-> frame(vm).ip - 1,
         const_ip |-> frame(vm).ip,
         value |-> value,
         count |-> IF Running(v1) THEN deref(v1, value.v).upvalue_count ELSE 0,
         pairs_ip |-> frame(v1).ip,
         pairs |-> IF Running(after) THEN (frame(after).ip - frame(v1).ip) \div 2
                   ELSE 0,
         end_ip |-> frame(after).ip]]

\* the rest of VM::closure once the function is known
instantiate(vm, function) ==
    Then(read_upvalues(vm, function.upvalue_count, <<>>), LAMBDA v1, upvalues :
    Then(allocate(v1, [kind |-> "Closure", function |-> function,
                       upvalues |-> upvalues]),
         LAMBDA v2, handle : push(v2, object(handle))))

\* VM::closure
closure(vm) ==
    IF ~Running(vm) THEN vm
    ELSE Then(closure_function(vm), LAMBDA v1, value :
            note_closure(vm, value, v1,
                         IF Running(v1) THEN instantiate(v1, deref(v1, value.v))
                         ELSE v1))

\* `last - (arity + 1) as usize`, the callee's slot: [vm, r]
callee_slot(vm, arity) ==
    IF ~Running(vm) THEN [vm |-> vm, r |-> 0]
    ELSE IF Len(vm.stack) < arity THEN [vm |-> vm, r |-> 0]
    ELSE IF Len(vm.stack) < arity + 1 /\ vm.debug
    THEN [vm |-> RustPanic(vm, "attempt to subtract with overflow"), r |-> 0]
    ELSE [vm |-> vm, r |-> Len(vm.stack) - (arity + 1)]

\* push_frame taking the first argument's slot for the frame base
push_frame_above(vm, handle, arity, start) ==
    IF ~Running(vm) THEN vm
    ELSE IF deref(vm, handle).function.arity # arity
    THEN runtime_error(vm, "arity mismatch")
    ELSE [vm EXCEPT !.frames = Append(@, [closure |-> handle, ip |-> 0,
                                          stack_start |-> start + 1,
                                          id |-> vm.frame_seq + 1]),
                    !.frame_seq = @ + 1]

\* the tail of call_closure: the arity check and the new frame
push_frame(vm, handle, arity, start) ==
    IF ~Running(vm) THEN vm
    ELSE IF deref(vm, handle).function.arity # arity
    THEN runtime_error(vm, "arity mismatch")
    ELSE [vm EXCEPT !.frames = Append(@, [closure |-> handle, ip |-> 0,
                                          stack_start |-> start,
                                          id |-> vm.frame_seq + 1]),
                    !.frame_seq = @ + 1]

\* VM::call_closure
call_closure(vm, handle, arity) ==
    Then(callee_slot(deref_check(vm, handle), arity),
         LAMBDA v1, start : push_frame(v1, handle, arity, start))

\* the native functions the embedder registers: [vm, r], r the value returned
call_native(vm, native, frame_start) ==
    CASE native.function = "print_native" ->
            [vm |-> stack_at(vm, frame_start + 1).vm, r |-> nil]
      [] OTHER -> [vm |-> vm, r |-> nil]

\* the NativeFunction arm of VM::call
call_native_fn(vm, native, arity, start) ==
    IF native.arity # arity THEN runtime_error(vm, "arity mismatch")
    ELSE Then(call_native(vm, native, start), LAMBDA v1, value :
            IF ~Running(v1) THEN v1
            ELSE [v1 EXCEPT !.stack = Append(SubSeq(@, 1, start), value)])

\* VM::call once the callee is decoded
call_value(vm, callee, arity, start) ==
    IF ~Running(vm) \/ ~IsObj(callee) THEN vm
    ELSE Let(deref_check(vm, callee.v), LAMBDA v1 :
            IF ~Running(v1) THEN v1
            ELSE IF deref(v1, callee.v).kind = "Closure"
            THEN call_closure(v1, callee.v, arity)
            ELSE IF deref(v1, callee.v).kind = "NativeFunction"
            THEN call_native_fn(v1, deref(v1, callee.v), arity, start)
            ELSE runtime_error(v1, "bad call"))

\* VM::call
call(vm, arity) ==
    Then(callee_slot(vm, arity), LAMBDA v1, start :
    Then(stack_at(v1, start), LAMBDA v2, callee :
        call_value(v2, callee, arity, start)))

\* the tail of VM::ret without the truncation
leave_frame_untruncated(vm, stack_start, return_value) ==
    Let(IF Running(vm) /\ stack_start < Len(vm.stack)
        THEN close_upvalues(vm, stack_start) ELSE vm,
        LAMBDA v1 : push(v1, return_value))

\* the tail of VM::ret: close, truncate, push
leave_frame(vm, stack_start, return_value) ==
    Let(IF Running(vm) /\ stack_start < Len(vm.stack)
        THEN close_upvalues(vm, stack_start) ELSE vm,
        LAMBDA v1 :
            IF ~Running(v1) THEN v1
            ELSE push([v1 EXCEPT !.stack =
                          SubSeq(@, 1, IF stack_start < Len(@)
                                       THEN stack_start ELSE Len(@))],
                      return_value))

\* VM::ret
ret(vm) ==
    IF ~Running(vm) THEN vm
    ELSE IF vm.frames = <<>> THEN runtime_error(vm, "can't return from top-level")
    ELSE Then(pop([vm EXCEPT !.frames = Front(@)]), LAMBDA v1, return_value :
            leave_frame(v1, frame(vm).stack_start, return_value))

\* VM::constant after decode_op's read_byte
constant(vm) == push_r(Then(read_byte(vm), read_constant_at))

\* VM::print
print(vm) == pop(vm).vm

Digits == <<"0", "1", "2", "3", "4", "5", "6", "7", "8", "9">>

RECURSIVE NatStr(_)
NatStr(n) == IF n < 10 THEN <<Digits[n + 1]>>
             ELSE NatStr(n \div 10) \o <<Digits[(n % 10) + 1]>>

\* format!("{}", f) of an integral f64
NumStr(n) == IF n < 0 THEN <<"-">> \o NatStr(-n) ELSE NatStr(n)

\* `self.deref(h).as_string().unwrap()`: [vm, r]
as_string(vm, h) ==
    Let(deref_check(vm, h), LAMBDA v1 :
        IF ~Running(v1) THEN [vm |-> v1, r |-> <<>>]
        ELSE IF deref(v1, h).kind # "String"
        THEN [vm |-> RustPanic(v1, "called Option::unwrap() on a None value"),
              r |-> <<>>]
        ELSE [vm |-> v1, r |-> deref(v1, h).str])

\* allocate a string and push it
push_string(vm, s) ==
    Then(allocate(vm, [kind |-> "String", str |-> s]),
         LAMBDA v1, handle : push(v1, object(handle)))

\* the match of VM::add on the decoded operands
add_values(vm, a, b) ==
    IF ~Running(vm) THEN vm
    ELSE CASE a.t = "Float" /\ b.t = "Float" -> push(vm, Float(a.v + b.v))
           [] a.t = "Obj" /\ b.t = "Obj" ->
                Then(as_string(vm, a.v), LAMBDA v1, sa :
                Then(as_string(v1, b.v), LAMBDA v2, sb :
                    push_string(v2, sa \o sb)))
           [] a.t = "Obj" /\ b.t = "Float" ->
                Then(as_string(vm, a.v), LAMBDA v1, sa :
                    push_string(v1, sa \o NumStr(b.v)))
           [] a.t = "Float" /\ b.t = "Obj" ->
                Then(as_string(vm, b.v), LAMBDA v1, sb :
                    push_string(v1, NumStr(a.v) \o sb))
           [] OTHER -> vm

\* VM::add
add(vm) ==
    Then(pop(vm), LAMBDA v1, b :
    Then(pop(v1), LAMBDA v2, a : add_values(v2, a, b)))

\* the binary_op! macro: its $op is not used in the expansion
binary_op(vm, op) ==
    Then(pop(vm), LAMBDA v1, b :
    Then(pop(v1), LAMBDA v2, a : push(v2, FromBool(a = b))))

sub(vm) == binary_op(vm, "sub")
mul(vm) == binary_op(vm, "mul")
rem(vm) == binary_op(vm, "rem")
div(vm) == binary_op(vm, "div")
eq(vm) == binary_op(vm, "eq")
gt(vm) == binary_op(vm, "gt")
lt(vm) == binary_op(vm, "lt")

RECURSIVE IntPow(_, _)
IntPow(a, b) == IF b = 0 THEN 1 ELSE a * IntPow(a, b - 1)

\* VM::pow: both operands are popped and a.powf(b) is pushed when both are
\* floats, nothing otherwise.  Floats are integers here; the reciprocal that a
\* negative exponent yields is kept symbolic as <<"recip", a^(-b)>>.
pow(vm) ==
    Then(pop(vm), LAMBDA v1, b :
    Then(pop(v1), LAMBDA v2, a :
        IF Running(v2) /\ a.t = "Float" /\ b.t = "Float"
        THEN push(v2, Float(IF b.v >= 0 THEN IntPow(a.v, b.v)
                                        ELSE <<"recip", IntPow(a.v, 0 - b.v)>>))
        ELSE v2))

\* VM::neg
neg(vm) ==
    Then(pop(vm), LAMBDA v1, a :
        IF Running(v1) /\ a.t = "Float" THEN push(v1, Float(-a.v)) ELSE v1)

\* VM::not
not(vm) ==
    Then(pop(vm), LAMBDA v1, a :
        push(v1, IF truthy(a) THEN falselit ELSE truelit))

\* `.as_object().map(deref).and_then(as_string).expect(msg)`: [vm, r]
expect_string(vm, value, msg) ==
    IF ~Running(vm) THEN [vm |-> vm, r |-> <<>>]
    ELSE IF ~IsObj(value) THEN [vm |-> RustPanic(vm, msg), r |-> <<>>]
    ELSE Let(deref_check(vm, value.v), LAMBDA v1 :
            IF ~Running(v1) THEN [vm |-> v1, r |-> <<>>]
            ELSE IF deref(v1, value.v).kind # "String"
            THEN [vm |-> RustPanic(v1, msg), r |-> <<>>]
            ELSE [vm |-> v1, r |-> deref(v1, value.v).str])

\* the string constant the global instructions name: [vm, r]
global_name(vm, msg) ==
    Then(read_constant(vm), LAMBDA v1, value : expect_string(v1, value, msg))

\* VM::get_global
get_global(vm) ==
    Then(global_name(vm, "GetGlobal requires a string identifier"),
         LAMBDA v1, global :
            IF ~Running(v1) THEN v1
            ELSE IF global \in DOMAIN v1.globals THEN push(v1, v1.globals[global])
            ELSE runtime_error(v1, "undefined global variable"))

\* VM::define_global
define_global(vm) ==
    Then(global_name(vm, "expected constant to be a string value"),
         LAMBDA v1, var :
            IF ~Running(v1) THEN v1
            ELSE IF v1.stack = <<>>
            THEN RustPanic(v1, "called Option::unwrap() on a None value")
            ELSE push([v1 EXCEPT !.stack = Front(@),
                                 !.globals = Put(@, var, Last(v1.stack))],
                      Last(v1.stack)))

\* VM::set_global
set_global_op(vm) ==
    Then(global_name(vm, "expected constant to be a string value"),
         LAMBDA v1, var :
            IF ~Running(v1) THEN v1
            ELSE IF v1.stack = <<>>
            THEN RustPanic(v1, "called Option::unwrap() on a None value")
            ELSE [v1 EXCEPT !.globals = Put(@, var, Last(v1.stack))])

\* VM::get_local
get_local(vm) ==
    Then(read_byte(vm), LAMBDA v1, idx :
        push_r(stack_at(v1, frame(vm).stack_start + idx)))

\* VM::set_local
set_local(vm) ==
    Then(peek(vm), LAMBDA v0, val :
    Then(read_byte(v0), LAMBDA v1, idx :
        stack_set(v1, frame(vm).stack_start + idx, val)))

\* VM::immediate
immediate(vm) ==
    Then(read_u64(vm), LAMBDA v1, raw :
        IF ~Running(v1) THEN v1 ELSE push(v1, ValueFromBytes(raw)))

imm_nil(vm) == push(vm, nil)
imm_true(vm) == push(vm, truelit)
imm_false(vm) == push(vm, falselit)

\* `self.frame_mut().ip = ip`
set_ip(vm, target) ==
    IF ~Running(vm) THEN vm
    ELSE [vm EXCEPT !.frames[Len(vm.frames)].ip = target]

\* VM::jmp
jmp(vm) == Then(read_u16(vm), set_ip)

\* a jze that jumps whatever the top of the stack is
jze_always(vm) ==
    Then(read_u16(vm), LAMBDA v1, target :
    Then(peek(v1), LAMBDA v2, top :
        IF Running(v2) THEN set_ip(v2, target) ELSE v2))

\* VM::jze
jze(vm) ==
    Then(read_u16(vm), LAMBDA v1, target :
    Then(peek(v1), LAMBDA v2, top :
        IF Running(v2) /\ ~truthy(top) THEN set_ip(v2, target) ELSE v2))

\* VM::op_loop
op_loop(vm) ==
    Then(read_u16(vm), LAMBDA v1, back :
        IF ~Running(v1) THEN v1
        ELSE IF frame(v1).ip < back /\ v1.debug
        THEN RustPanic(v1, "attempt to subtract with overflow")
        ELSE set_ip(v1, frame(v1).ip - back))

RECURSIVE pop_n(_, _, _)
\* `for _ in 0..element_count { content.push(self.pop()) }`: [vm, r]
pop_n(vm, n, acc) ==
    IF n = 0 \/ ~Running(vm) THEN [vm |-> vm, r |-> acc]
    ELSE Then(pop(vm), LAMBDA v1, value : pop_n(v1, n - 1, Append(acc, value)))

\* VM::list
list(vm) ==
    Then(read_byte(vm), LAMBDA v1, element_count :
    Then(pop_n(v1, element_count, <<>>), LAMBDA v2, content :
    Then(allocate(v2, [kind |-> "List", content |-> content]),
         LAMBDA v3, handle : push(v3, object(handle)))))

\* `n as i64` as its eight little-endian bytes, |n| < 2^21
I64Bytes(n) ==
    LET s == IF n < 0 THEN 255 ELSE 0
    IN <<n % 256, (n \div 256) % 256, (n \div 65536) % 256, s, s, s, s, s>>

HashInt(bytes) == [shape |-> "Int", bytes |-> bytes, str |-> <<>>]
HashBool(b) == [shape |-> "Bool", bytes |-> <<IF b THEN 1 ELSE 0>>, str |-> <<>>]
HashStr(s) == [shape |-> "Str", bytes |-> <<>>, str |-> s]
HashNil == [shape |-> "Nil", bytes |-> <<>>, str |-> <<>>]

\* Variant::to_hash: [vm, r]
to_hash(vm, value) ==
    CASE value.t = "Float" -> [vm |-> vm, r |-> HashInt(F64Bytes(value.v))]
      [] value.t = "True" -> [vm |-> vm, r |-> HashBool(TRUE)]
      [] value.t = "False" -> [vm |-> vm, r |-> HashBool(FALSE)]
      [] value.t = "Nil" -> [vm |-> vm, r |-> HashNil]
      [] value.t = "Obj" ->
            Then(as_string(vm, value.v),
                 LAMBDA v1, s : [vm |-> v1, r |-> HashStr(s)])

\* HashMap::insert on the (key, value) pairs of a dict
dict_insert(content, key, value) ==
    LET m == {i \in 1..Len(content) : content[i].key = key}
    IN IF m = {} THEN Append(content, [key |-> key, val |-> value])
       ELSE [content EXCEPT ![MinOf(m)].val = value]

RECURSIVE pop_pairs(_, _, _)
\* the loop of VM::dict: [vm, r]
pop_pairs(vm, n, acc) ==
    IF n = 0 \/ ~Running(vm) THEN [vm |-> vm, r |-> acc]
    ELSE Then(pop(vm), LAMBDA v1, value :
         Then(pop(v1), LAMBDA v2, k :
            IF ~Running(v2) THEN [vm |-> v2, r |-> acc]
            ELSE Then(to_hash(v2, k), LAMBDA v3, key :
                    pop_pairs(v3, n - 1, dict_insert(acc, key, value)))))

\* VM::dict
dict(vm) ==
    Then(read_byte(vm), LAMBDA v1, element_count :
    Then(pop_pairs(v1, element_count, <<>>), LAMBDA v2, content :
    Then(allocate(v2, [kind |-> "Dict", content |-> content]),
         LAMBDA v3, handle : push(v3, object(handle)))))

\* `*index as usize` of a list index: [vm, r]
list_index(vm, index) ==
    IF ~Running(vm) THEN [vm |-> vm, r |-> 0]
    ELSE IF index.t # "Float"
    THEN [vm |-> RustPanic(vm, "Can't index list with non-number"), r |-> 0]
    ELSE [vm |-> vm, r |-> IF index.v < 0 THEN 0 ELSE index.v]

\* the key VM::set_element builds from the index: [vm, r]
set_element_key(vm, index) ==
    IF ~Running(vm) THEN [vm |-> vm, r |-> HashNil]
    ELSE CASE index.t = "Float" -> [vm |-> vm, r |-> HashInt(I64Bytes(index.v))]
           [] index.t = "True" -> [vm |-> vm, r |-> HashBool(TRUE)]
           [] index.t = "False" -> [vm |-> vm, r |-> HashBool(FALSE)]
           [] index.t = "Obj" ->
                Then(as_string(vm, index.v),
                     LAMBDA v1, s : [vm |-> v1, r |-> HashStr(s)])
           [] index.t = "Nil" -> [vm |-> vm, r |-> HashNil]

\* `list.as_object().unwrap()` followed by the dereference
unwrap_object(vm, value) ==
    IF ~Running(vm) THEN vm
    ELSE IF ~IsObj(value)
    THEN RustPanic(vm, "called Option::unwrap() on a None value")
    ELSE deref_check(vm, value.v)

\* a set that writes the value at every index
list_set_all(vm, h, idx, value) ==
    IF ~Running(vm) THEN vm
    ELSE IF idx >= Len(deref(vm, h).content)
    THEN RustPanic(vm, "index out of bounds")
    ELSE [vm EXCEPT !.heap.store[h].content = [j \in DOMAIN @ |-> value]]

\* List::set
list_set(vm, h, idx, value) ==
    IF ~Running(vm) THEN vm
    ELSE IF idx >= Len(deref(vm, h).content)
    THEN RustPanic(vm, "index out of bounds")
    ELSE [vm EXCEPT !.heap.store[h].content[idx + 1] = value]

\* the two `if let` of VM::set_element on the container
store_element(vm, h, index, key, value) ==
    IF ~Running(vm) THEN vm
    ELSE IF deref(vm, h).kind = "List"
    THEN Then(list_index(vm, index), LAMBDA v1, idx : list_set(v1, h, idx, value))
    ELSE IF deref(vm, h).kind = "Dict"
    THEN [vm EXCEPT !.heap.store[h].content = dict_insert(@, key, value)]
    ELSE vm

\* VM::set_element
set_element(vm) ==
    Then(pop(vm), LAMBDA v1, container :
    Then(pop(v1), LAMBDA v2, index_value :
    Then(pop(v2), LAMBDA v3, value :
    Then(set_element_key(v3, index_value), LAMBDA v4, key :
        store_element(unwrap_object(v4, container), container.v,
                      index_value, key, value)))))

\* List::get
list_get(vm, h, idx) ==
    IF ~Running(vm) THEN vm
    ELSE IF idx >= Len(deref(vm, h).content)
    THEN RustPanic(vm, "index out of bounds")
    ELSE push(vm, deref(vm, h).content[idx + 1])

\* Dict::get
dict_get(vm, h, key) ==
    IF ~Running(vm) THEN vm
    ELSE LET content == deref(vm, h).content
             m == {i \in 1..Len(content) : content[i].key = key}
         IN IF m = {} THEN RustPanic(vm, "no such field on dict")
            ELSE push(vm, content[MinOf(m)].val)

\* the two `if let` of VM::index on the container
load_element(vm, h, index_value) ==
    IF ~Running(vm) THEN vm
    ELSE IF deref(vm, h).kind = "List"
    THEN Then(list_index(vm, index_value), LAMBDA v1, idx : list_get(v1, h, idx))
    ELSE IF deref(vm, h).kind = "Dict"
    THEN Then(to_hash(vm, index_value), LAMBDA v1, key : dict_get(v1, h, key))
    ELSE vm

\* VM::index, the handler of the GetElement opcode
index(vm) ==
    Then(pop(vm), LAMBDA v1, container :
    Then(pop(v1), LAMBDA v2, index_value :
        load_element(unwrap_object(v2, container), container.v, index_value)))

\* --------------------------------------------------------------- programs
\* The IR the embedder hands to VM::exec.  Bindings of top-level locals are
\* written with depth 1 where the program is meant to run in both builds:
\* add_local computes scope_depth - (depth - 1), which overflows for depth 0.
s_foo == <<"f", "o", "o">>
s_FOO == <<"F", "O", "O">>
s_sum == <<"s", "u", "m">>
s_bar == <<"b", "a", "r">>
s_baz == <<"b", "a", "z">>
s_fib == <<"f", "i", "b">>
s_print == <<"p", "r", "i", "n", "t">>
s_hello == <<"h", "i">>
s_bob == <<"b", "o", "b">>
s_element == <<"e", "l">>
s_stuff == <<"s", "t">>
s_fruit == <<"f", "r">>
s_apple == <<"a", "p">>
s_test == <<"t", "e">>
s_gangster == <<"g", "a">>
s_pad == <<"p", "a", "d">>
s_keep == <<"k">>
s_a == <<"a">>
s_b == <<"b">>
s_c == <<"c">>
s_d == <<"d">>
s_e == <<"e">>
s_g == <<"g">>
s_h == <<"h">>
s_i == <<"i">>
s_n == <<"n">>
s_p == <<"p">>
s_q == <<"q">>
s_x == <<"x">>
s_go == <<"g", "o">>
s_more == <<"m", "o">>
s_outer == <<"o", "u">>
s_inner == <<"i", "n">>
s_res == <<"r", "e", "s">>

\* tests::globals
P_globals == << Bind(Binding_global(s_foo), Number(42)) >>

\* tests::locals
P_locals ==
    << Bind(Binding_local(s_foo, 0, 0), Number(42)),
       Bind(Binding_global(s_FOO), Var(Binding_local(s_foo, 0, 0))) >>

\* tests::binary
P_binary ==
    << Bind(Binding_global(s_sum), Binary(Number(20), "Add", Number(30))) >>

\* tests::actual_real_functions
P_functions ==
    << Function(Binding_local(s_foo, 0, 0),
                << Binding_local(s_a, 1, 0), Binding_local(s_b, 1, 0) >>,
                << Return(Binary(Var(Binding_local(s_a, 1, 1)), "Add",
                                 Var(Binding_local(s_b, 1, 1)))) >>),
       Bind(Binding_global(s_bar),
            Call(Var(Binding_local(s_foo, 0, 0)), << Number(10), Number(30) >>)) >>

\* tests::ffi; IrBuilder::call rewrites the global callee to depth Some(0)
P_ffi ==
    << Call(Var(Binding_local(s_print, 0, 0)), << String(s_hello) >>) >>

\* the same call with the callee left global
P_native ==
    << Call(Var(Binding_global(s_print)), << String(s_hello) >>), PopExpr >>

\* tests::list
P_list ==
    << Bind(Binding_local(s_bob, 0, 0),
            List(<< Number(11), Number(22), Number(33) >>)),
       SetElement(Var(Binding_local(s_bob, 0, 0)), Number(0), Number(777)),
       Bind(Binding_global(s_element),
            GetElement(Var(Binding_local(s_bob, 0, 0)), Number(0))) >>

\* tests::recursion
P_recursion ==
    << Function(Binding_local(s_fib, 0, 0), << Binding_local(s_n, 1, 0) >>,
         << Return(If(Binary(Var(Binding_local(s_n, 1, 1)), "LtEqual", Number(3)),
                      Var(Binding_local(s_n, 1, 1)),
                      Binary(Call(Var(Binding_local(s_fib, 1, 0)),
                                  << Binary(Var(Binding_local(s_n, 1, 1)), "Sub",
                                            Number(1)) >>),
                             "Add",
                             Call(Var(Binding_local(s_fib, 1, 0)),
                                  << Binary(Var(Binding_local(s_n, 1, 1)), "Sub",
                                            Number(2)) >>)))) >>),
       Call(Var(Binding_local(s_print, 0, 0)),
            << Call(Var(Binding_local(s_fib, 0, 0)), << Number(10) >>) >>) >>

\* tests::dict
P_dict ==
    << Bind(Binding_local(s_stuff, 0, 0), Dict(<<>>, <<>>)),
       SetElement(Var(Binding_local(s_stuff, 0, 0)), String(s_fruit),
                  String(s_apple)),
       Bind(Binding_global(s_test),
            GetElement(Var(Binding_local(s_stuff, 0, 0)), String(s_fruit))) >>

\* examples/mini.rs TEST, as its parser and codegen build it (13.37 is
\* written 13: the model keeps integral floats)
P_mini ==
    << Bind(Binding_local(s_bar, 0, 0), Number(13)),
       Function(Binding_local(s_foo, 0, 0), <<>>,
         << Function(Binding_local(s_baz, 1, 1), << Binding_local(s_c, 2, 1) >>,
              << Return(Binary(Var(Binding_local(s_c, 2, 2)), "Add",
                               Var(Binding_local(s_bar, 2, 0)))) >>),
            Return(Call(Var(Binding_local(s_baz, 1, 1)), << Number(10) >>)) >>),
       Bind(Binding_global(s_gangster),
            Call(Var(Binding_local(s_foo, 0, 0)), <<>>)) >>

\* global binds interleaved with a local bind
P_interleaved ==
    << Bind(Binding_global(s_g), Number(1)),
       Bind(Binding_local(s_x, 1, 1), Number(2)),
       Bind(Binding_global(s_h), Var(Binding_local(s_x, 1, 1))) >>

\* value expressions in statement position
P_cond ==
    << If(Boolean(TRUE), Number(1), NoExpr),
       If(Boolean(FALSE), Number(1), Number(2)),
       If(Boolean(FALSE), Number(1), NoExpr),
       List(<< Number(1) >>),
       SetElement(List(<< Number(1) >>), Number(0), Number(2)),
       Unary("Neg", Number(1)) >>

\* one Closure instruction over the local x, executed twice by the loop,
\* each closure called before the next is made
P_shared ==
    << Bind(Binding_local(s_x, 1, 1), Number(5)),
       Bind(Binding_local(s_go, 1, 1), Boolean(TRUE)),
       Bind(Binding_local(s_pad, 1, 1), String(s_pad)),
       Bind(Binding_local(s_more, 1, 1), Boolean(TRUE)),
       While(Var(Binding_local(s_go, 1, 1)),
             Block(<< Call(AnonFunction(Binding_local(s_inner, 1, 1), <<>>,
                              << Return(Var(Binding_local(s_x, 2, 1))) >>), <<>>),
                      PopExpr,
                      Mutate(Var(Binding_local(s_go, 1, 1)),
                             Var(Binding_local(s_more, 1, 1))),
                      PopExpr,
                      Mutate(Var(Binding_local(s_more, 1, 1)), Boolean(FALSE)),
                      PopExpr >>)) >>

\* outer(p) returns a closure over p, which is written and read once
\* outer has returned
P_counter ==
    << Function(Binding_local(s_outer, 1, 1), << Binding_local(s_p, 2, 1) >>,
         << String(s_pad), PopExpr,
            Return(AnonFunction(Binding_local(s_inner, 2, 2), <<>>,
                     << Mutate(Var(Binding_local(s_p, 3, 2)), Number(7)),
                        PopExpr,
                        Return(Var(Binding_local(s_p, 3, 2))) >>)) >>),
       Bind(Binding_global(s_res),
            Call(Call(Var(Binding_local(s_outer, 1, 1)), << Number(5) >>), <<>>)) >>

\* outer(p, q) makes three closures; the third captures q
P_skew ==
    << Function(Binding_local(s_outer, 1, 1),
                << Binding_local(s_p, 2, 1), Binding_local(s_q, 2, 1) >>,
         << AnonFunction(Binding_local(s_a, 2, 2), <<>>, << Return(Number(1)) >>),
            PopExpr,
            AnonFunction(Binding_local(s_b, 2, 2), <<>>, << Return(Number(2)) >>),
            PopExpr,
            AnonFunction(Binding_local(s_c, 2, 2), <<>>,
                         << Return(Var(Binding_local(s_q, 3, 2))) >>),
            PopExpr,
            Return(Number(0)) >>),
       Call(Var(Binding_local(s_outer, 1, 1)), << Number(1), Number(2) >>),
       PopExpr >>

\* outer(p) captures p and runs off the end of its body
P_noreturn ==
    << Function(Binding_local(s_outer, 1, 1), << Binding_local(s_p, 2, 1) >>,
         << String(s_pad), PopExpr,
            AnonFunction(Binding_local(s_inner, 2, 2), <<>>,
                         << Return(Var(Binding_local(s_p, 3, 2))) >>),
            PopExpr >>),
       Call(Var(Binding_local(s_outer, 1, 1)), << Number(5) >>),
       PopExpr >>

\* the arithmetic, ordering and logic operators
P_arith ==
    << Bind(Binding_global(s_a),
            Binary(Binary(Binary(Binary(Number(7), "Sub", Number(2)),
                                 "Mul", Number(3)), "Div", Number(4)),
                   "Rem", Number(5))),
       PopExpr,
       Bind(Binding_global(s_b),
            Binary(Binary(Binary(Number(1), "Equal", Number(1)),
                          "Gt", Number(2)), "Lt", Number(3))),
       PopExpr,
       Bind(Binding_global(s_c), Unary("Neg", Binary(Number(2), "Pow", Number(3)))),
       PopExpr,
       Bind(Binding_global(s_d),
            Unary("Not", Binary(Boolean(TRUE), "And", Boolean(FALSE)))),
       PopExpr,
       Bind(Binding_global(s_e), Binary(NilLit, "Or", Number(1))),
       PopExpr,
       Mutate(Var(Binding_global(s_a)), Var(Binding_global(s_b))),
       PopExpr >>

\* a loop that ends by its condition and a loop that ends by Break
P_loop ==
    << Bind(Binding_local(s_i, 1, 1), Boolean(TRUE)),
       While(Var(Binding_local(s_i, 1, 1)),
             Block(<< Mutate(Var(Binding_local(s_i, 1, 1)), Boolean(FALSE)),
                      PopExpr >>)),
       While(Boolean(TRUE), Break) >>

\* a dict and a list written and read through the compiler's Index arm
P_index ==
    << Bind(Binding_global(s_d), Dict(<< String(s_fruit) >>, << Number(1) >>)),
       PopExpr,
       SetElement(Var(Binding_global(s_d)), String(s_fruit), Number(2)),
       Bind(Binding_global(s_e),
            Binary(Var(Binding_global(s_d)), "Index", String(s_fruit))),
       PopExpr,
       Bind(Binding_global(s_h),
            Binary(List(<< Number(11), Number(22) >>), "Index", Number(1))),
       PopExpr >>

\* garbage before and after a list of a list that only a global holds
P_gc ==
    << List(<< Number(1) >>), PopExpr,
       Bind(Binding_global(s_keep), List(<< List(<< Number(1) >>) >>)), PopExpr,
       List(<< Number(2) >>), PopExpr,
       List(<< Number(3) >>), PopExpr >>

\* outer, of eight parameters, returns its seventh and is called with 1..8
P_arity ==
    << Function(Binding_local(s_outer, 1, 1),
                << Binding_local(s_a, 2, 1), Binding_local(s_b, 2, 1),
                   Binding_local(s_c, 2, 1), Binding_local(s_d, 2, 1),
                   Binding_local(s_e, 2, 1), Binding_local(s_g, 2, 1),
                   Binding_local(s_h, 2, 1), Binding_local(s_i, 2, 1) >>,
                << Return(Var(Binding_local(s_h, 1, 1))) >>),
       Bind(Binding_global(s_res),
            Call(Var(Binding_local(s_outer, 1, 1)),
                 << Number(1), Number(2), Number(3), Number(4),
                    Number(5), Number(6), Number(7), Number(8) >>)) >>

\* calls whose callee is a number, then a string
P_badcall ==
    << Call(Number(5), <<>>), PopExpr,
       Call(String(s_foo), <<>>), PopExpr >>

\* Neg, Add and Pow applied to a boolean or nil operand
P_badarith ==
    << Unary("Neg", Boolean(TRUE)),
       Binary(NilLit, "Add", Number(1)),
       Binary(Boolean(FALSE), "Pow", Number(2)) >>

\* a function of eight parameters that calls itself without end
P_deep ==
    << Function(Binding_global(s_go),
                << Binding_local(s_a, 2, 1), Binding_local(s_b, 2, 1),
                   Binding_local(s_c, 2, 1), Binding_local(s_d, 2, 1),
                   Binding_local(s_e, 2, 1), Binding_local(s_g, 2, 1),
                   Binding_local(s_h, 2, 1), Binding_local(s_i, 2, 1) >>,
                << Return(Call(Var(Binding_global(s_go)),
                               << Number(1), Number(2), Number(3), Number(4),
                                  Number(5), Number(6), Number(7), Number(8) >>)) >>),
       Call(Var(Binding_global(s_go)),
            << Number(1), Number(2), Number(3), Number(4),
               Number(5), Number(6), Number(7), Number(8) >>) >>

\* each kind of literal bound to a global, and each global read back
P_literals ==
    << Bind(Binding_global(s_a), Number(-5)), Var(Binding_global(s_a)),
       Bind(Binding_global(s_b), String(s_hello)), Var(Binding_global(s_b)),
       Bind(Binding_global(s_c), Boolean(TRUE)), Var(Binding_global(s_c)),
       Bind(Binding_global(s_d), NilLit), Var(Binding_global(s_d)) >>

Programs ==
    [empty |-> <<>>,
     globals |-> P_globals,
     locals |-> P_locals,
     binary |-> P_binary,
     functions |-> P_functions,
     ffi |-> P_ffi,
     native |-> P_native,
     list |-> P_list,
     recursion |-> P_recursion,
     dict |-> P_dict,
     mini |-> P_mini,
     interleaved |-> P_interleaved,
     cond |-> P_cond,
     shared |-> P_shared,
     counter |-> P_counter,
     skew |-> P_skew,
     noreturn |-> P_noreturn,
     arith |-> P_arith,
     loop |-> P_loop,
     index |-> P_index,
     gc |-> P_gc,
     arity |-> P_arity]

ProgramNames == DOMAIN Programs

\* ------------------------------------------------------------ state machine
\* stack .. next_gc are the fields of struct VM, cells the upvalue cells;
\* status, msg and debug as in the VM record; gc_log, closure_log,
\* close_log, frame_seq are the event logs; execs counts VM::exec calls,
\* program names the last IR executed, stmt_bounds its statement offsets and
\* heights the stack height at the first arrival at each; held is the set of
\* Rooted handles the embedder holds and roots the number it has taken.
VARIABLES stack, frames, globals, open_upvalues, cells, heap, next_gc,
          status, msg, debug, gc_log, closure_log, close_log, frame_seq,
          execs, program, stmt_bounds, heights, held, roots, unit

vars == <<stack, frames, globals, open_upvalues, cells, heap, next_gc,
          status, msg, debug, gc_log, closure_log, close_log, frame_seq,
          execs, program, stmt_bounds, heights, held, roots, unit>>

\* the VM the variables hold
VMRec ==
    [stack |-> stack, frames |-> frames, globals |-> globals,
     open_upvalues |-> open_upvalues, cells |-> cells, heap |-> heap,
     next_gc |-> next_gc, status |-> status, msg |-> msg, debug |-> debug,
     gc_log |-> gc_log, closure_log |-> closure_log, close_log |-> close_log,
     frame_seq |-> frame_seq]

CommitVM(vm) ==
    /\ stack' = vm.stack
    /\ frames' = vm.frames
    /\ globals' = vm.globals
    /\ open_upvalues' = vm.open_upvalues
    /\ cells' = vm.cells
    /\ heap' = vm.heap
    /\ next_gc' = vm.next_gc
    /\ status' = vm.status
    /\ msg' = vm.msg
    /\ debug' = vm.debug
    /\ gc_log' = vm.gc_log
    /\ closure_log' = vm.closure_log
    /\ close_log' = vm.close_log
    /\ frame_seq' = vm.frame_seq

Commit(vm) ==
    /\ CommitVM(vm)
    /\ unit' = unit

\* `while !self.frames.is_empty()`: VM::run, and with it VM::exec, returns
\* once the frame stack is empty
Finish(vm) ==
    IF Running(vm) /\ vm.frames = <<>> THEN [vm EXCEPT !.status = "idle"] ELSE vm

\* the statement boundary (0 = before the first statement) the top-level
\* frame stands at, or NONE
BoundaryAt(vm, bounds) ==
    IF ~Running(vm) \/ Len(vm.frames) # 1 THEN NONE
    ELSE IF frame(vm).ip = 0 THEN 0
    ELSE LET m == {i \in 1..Len(bounds) : bounds[i] = frame(vm).ip}
         IN IF m = {} THEN NONE ELSE MinOf(m)

\* heights: the stack height at the first arrival at each boundary
NoteHeight(vm, bounds, hs) ==
    LET b == BoundaryAt(vm, bounds)
    IN IF b = NONE \/ b \in DOMAIN hs THEN hs ELSE Put(hs, b, Len(vm.stack))

NoLog == [n |-> 0]

\* VM::new()
VM_new ==
    /\ stack = <<>>
    /\ frames = <<>>
    /\ globals = EmptyFn
    /\ open_upvalues = <<>>
    /\ cells = <<>>
    /\ heap = HeapDefault
    /\ next_gc = GC_TRIGGER_COUNT
    /\ status = "idle"
    /\ msg = ""
    /\ debug \in BOOLEAN
    /\ gc_log = NoLog
    /\ closure_log = NoLog
    /\ close_log = NoLog
    /\ frame_seq = 0
    /\ execs = 0
    /\ program = "empty"
    /\ stmt_bounds = <<>>
    /\ heights = EmptyFn
    /\ held = {}
    /\ roots = 0

\* no compiler or heap is driven apart from the VM's own
NoUnit == [k |-> "none"]

\* the VM after construction
Init ==
    /\ VM_new
    /\ unit = NoUnit

\* the VM as a method called by the embedder sees it, and as it is left
Enter(vm) == [vm EXCEPT !.status = "running"]
Leave(vm) == IF Running(vm) THEN [vm EXCEPT !.status = "idle"] ELSE vm

\* VM::exec after the compiler returned: the closure, push, call(0)
load(vm, cf) ==
    IF Failed(cf.c) THEN RustPanic(vm, cf.c.err)
    ELSE Then(allocate([vm EXCEPT !.heap = cf.c.heap],
                       [kind |-> "Closure", function |-> cf.f, upvalues |-> <<>>]),
              LAMBDA v1, handle : Finish(call(push(v1, object(handle)), 0)))

\* Compiler::compile_from
compile_from(c, exprs, locals) ==
    end_function(emit_return(
        compile_stmts(
            Let(start_function(c, FALSE, ZubName, 0, 0), LAMBDA c1 :
                SetTop(c1, [Top(c1) EXCEPT !.locals = locals])),
            exprs, 1),
        NoExpr))

\* VM::exec_from: locals is the snapshot it returns
exec_from(vm, exprs, locals) ==
    Let(compile_from(Compiler_new(vm.heap, vm.debug), exprs, locals), LAMBDA cf :
        [vm |-> load(Enter(vm), cf), bounds |-> cf.c.stmt_bounds,
         locals |-> cf.c.locals_cache])

\* VM::exec up to the first iteration of VM::run: [vm, bounds]
exec(vm, exprs) ==
    Let(compile(Compiler_new(vm.heap, vm.debug), exprs), LAMBDA cf :
        [vm |-> load(Enter(vm), cf), bounds |-> cf.c.stmt_bounds])

\* the variables after VM::exec took IR p
Loaded(p, e) ==
    /\ Commit(e.vm)
    /\ execs' = execs + 1
    /\ program' = p
    /\ stmt_bounds' = e.bounds
    /\ heights' = NoteHeight(e.vm, e.bounds, EmptyFn)
    /\ UNCHANGED <<held, roots>>

Exec ==
    /\ status = "idle"
    /\ execs < MaxExecs
    /\ \E p \in ProgramNames : Loaded(p, exec(VMRec, Programs[p]))

\* VM::add_native
add_native(vm, name, function, arity) ==
    Then(allocate(Enter(vm), [kind |-> "NativeFunction", name |-> name,
                              arity |-> arity, function |-> function]),
         LAMBDA v1, handle :
            Leave(IF Running(v1)
                  THEN [v1 EXCEPT !.globals = Put(@, name, object(handle))]
                  ELSE v1))

\* the embedder registers print_native as "print"
AddNative ==
    /\ status = "idle"
    /\ s_print \notin DOMAIN globals
    /\ Commit(add_native(VMRec, s_print, "print_native", 1))
    /\ UNCHANGED <<execs, program, stmt_bounds, heights, held, roots>>

\* the embedder calls vm.heap.insert and keeps the Rooted it returns; it
\* roots its objects before it hands the VM a program
Root ==
    /\ status = "idle"
    /\ execs = 0
    /\ roots < MaxRoots
    /\ heap' = insert(heap, [kind |-> "String", str |-> s_keep])
    /\ held' = held \cup {NewHandle(heap')}
    /\ roots' = roots + 1
    /\ UNCHANGED <<stack, frames, globals, open_upvalues, cells, next_gc,
                   status, msg, debug, gc_log, closure_log, close_log,
                   frame_seq, execs, program, stmt_bounds, heights, unit>>

\* the embedder drops a Rooted it holds
Unroot ==
    /\ status = "idle"
    /\ \E h \in held :
         /\ heap' = into_handle(heap, h)
         /\ held' = held \ {h}
    /\ UNCHANGED <<stack, frames, globals, open_upvalues, cells, next_gc,
                   status, msg, debug, gc_log, closure_log, close_log,
                   frame_seq, execs, program, stmt_bounds, heights, roots,
                   unit>>

\* the variables after one iteration of VM::run left the VM as `after`
Settle(after) ==
    /\ Commit(after)
    /\ heights' = NoteHeight(after, stmt_bounds, heights)
    /\ UNCHANGED <<execs, program, stmt_bounds, held, roots>>

\* the arm of decode_op! for op, f being what read_byte returned
Dispatch(f, op, handler(_)) ==
    /\ Running(f.vm)
    /\ f.r = op
    /\ Settle(Finish(handler(f.vm)))

\* one iteration of VM::run: read_byte, then the arm of decode_op! for op
Step(op, handler(_)) == Dispatch(read_byte(VMRec), op, handler)

IsOpcode(b) ==
    \/ b \in OP_Return..OP_False
    \/ b \in OP_Call..(OP_Call + MAX_CALL_ARGS)
    \/ b \in OP_Loop..OP_SetElement
    \/ b \in {OP_GetElement, OP_Pow}

\* what is left of the VM when the iteration does not reach a handler
trapped(f) == IF Running(f.vm) THEN RustPanic(f.vm, "Unknown op") ELSE f.vm

Undecodable(f) ==
    /\ ~Running(f.vm) \/ ~IsOpcode(f.r)
    /\ Settle(trapped(f))

\* the read_byte of VM::run fails, or decode_op! has no arm for the byte
Trap ==
    /\ status = "running"
    /\ Undecodable(read_byte(VMRec))

Ret ==
    /\ status = "running"
    /\ Step(OP_Return, ret)

Constant ==
    /\ status = "running"
    /\ Step(OP_Constant, constant)

PrintOp ==
    /\ status = "running"
    /\ Step(OP_Print, print)

Add ==
    /\ status = "running"
    /\ Step(OP_Add, add)

Sub ==
    /\ status = "running"
    /\ Step(OP_Sub, sub)

Mul ==
    /\ status = "running"
    /\ Step(OP_Mul, mul)

Div ==
    /\ status = "running"
    /\ Step(OP_Div, div)

Not ==
    /\ status = "running"
    /\ Step(OP_Not, not)

Neg ==
    /\ status = "running"
    /\ Step(OP_Neg, neg)

Equal ==
    /\ status = "running"
    /\ Step(OP_Equal, eq)

Greater ==
    /\ status = "running"
    /\ Step(OP_Greater, gt)

Less ==
    /\ status = "running"
    /\ Step(OP_Less, lt)

Jump ==
    /\ status = "running"
    /\ Step(OP_Jump, jmp)

JumpIfFalse ==
    /\ status = "running"
    /\ Step(OP_JumpIfFalse, jze)

Pop ==
    /\ status = "running"
    /\ Step(OP_Pop, LAMBDA vm : pop(vm).vm)

GetGlobal ==
    /\ status = "running"
    /\ Step(OP_GetGlobal, get_global)

SetGlobal ==
    /\ status = "running"
    /\ Step(OP_SetGlobal, set_global_op)

GetLocal ==
    /\ status = "running"
    /\ Step(OP_GetLocal, get_local)

SetLocal ==
    /\ status = "running"
    /\ Step(OP_SetLocal, set_local)

Immediate ==
    /\ status = "running"
    /\ Step(OP_Immediate, immediate)

ImmNil ==
    /\ status = "running"
    /\ Step(OP_Nil, imm_nil)

ImmTrue ==
    /\ status = "running"
    /\ Step(OP_True, imm_true)

ImmFalse ==
    /\ status = "running"
    /\ Step(OP_False, imm_false)

\* a decoder that subtracts one less than 0x17 from the byte
CallOpShifted ==
    /\ status = "running"
    /\ \E arity \in 0..MAX_CALL_ARGS :
         Step(OP_Call + arity, LAMBDA vm : call(vm, (arity + 1) % (MAX_CALL_ARGS + 1)))

CallOp ==
    /\ status = "running"
    /\ \E arity \in 0..MAX_CALL_ARGS :
         Step(OP_Call + arity, LAMBDA vm : call(vm, arity))

Loop ==
    /\ status = "running"
    /\ Step(OP_Loop, op_loop)

CloseUpValue ==
    /\ status = "running"
    /\ Step(OP_CloseUpValue, close_upvalue)

GetUpValue ==
    /\ status = "running"
    /\ Step(OP_GetUpValue, get_upvalue)

SetUpValue ==
    /\ status = "running"
    /\ Step(OP_SetUpValue, set_upvalue)

ClosureOp ==
    /\ status = "running"
    /\ Step(OP_Closure, closure)

DefineGlobal ==
    /\ status = "running"
    /\ Step(OP_DefineGlobal, define_global)

ListOp ==
    /\ status = "running"
    /\ Step(OP_List, list)

Rem ==
    /\ status = "running"
    /\ Step(OP_Rem, rem)

DictOp ==
    /\ status = "running"
    /\ Step(OP_Dict, dict)

SetElementOp ==
    /\ status = "running"
    /\ Step(OP_SetElement, set_element)

GetElementOp ==
    /\ status = "running"
    /\ Step(OP_GetElement, index)

Pow ==
    /\ status = "running"
    /\ Step(OP_Pow, pow)

\* decode_op!: the handler the opcode selects, applied to the VM
decode_op(vm, op) ==
    CASE op = OP_Return -> ret(vm)
      [] op = OP_Constant -> constant(vm)
      [] op = OP_Print -> print(vm)
      [] op = OP_Add -> add(vm)
      [] op = OP_Sub -> sub(vm)
      [] op = OP_Mul -> mul(vm)
      [] op = OP_Div -> div(vm)
      [] op = OP_Not -> not(vm)
      [] op = OP_Neg -> neg(vm)
      [] op = OP_Equal -> eq(vm)
      [] op = OP_Greater -> gt(vm)
      [] op = OP_Less -> lt(vm)
      [] op = OP_Jump -> jmp(vm)
      [] op = OP_JumpIfFalse -> jze(vm)
      [] op = OP_Pop -> pop(vm).vm
      [] op = OP_GetGlobal -> get_global(vm)
      [] op = OP_SetGlobal -> set_global_op(vm)
      [] op = OP_GetLocal -> get_local(vm)
      [] op = OP_SetLocal -> set_local(vm)
      [] op = OP_Immediate -> immediate(vm)
      [] op = OP_Nil -> imm_nil(vm)
      [] op = OP_True -> imm_true(vm)
      [] op = OP_False -> imm_false(vm)
      [] op \in OP_Call..(OP_Call + MAX_CALL_ARGS) -> call(vm, op - OP_Call)
      [] op = OP_Loop -> op_loop(vm)
      [] op = OP_CloseUpValue -> close_upvalue(vm)
      [] op = OP_GetUpValue -> get_upvalue(vm)
      [] op = OP_SetUpValue -> set_upvalue(vm)
      [] op = OP_Closure -> closure(vm)
      [] op = OP_DefineGlobal -> define_global(vm)
      [] op = OP_List -> list(vm)
      [] op = OP_Rem -> rem(vm)
      [] op = OP_Dict -> dict(vm)
      [] op = OP_SetElement -> set_element(vm)
      [] op = OP_GetElement -> index(vm)
      [] op = OP_Pow -> pow(vm)

\* one iteration of VM::run on s = [vm, hs], hs being the heights noted so
\* far for the statement boundaries `bounds`
run_once(s, bounds) ==
    Let(read_byte(s.vm), LAMBDA f :
    Let(IF Running(f.vm) /\ IsOpcode(f.r) THEN Finish(decode_op(f.vm, f.r))
        ELSE trapped(f),
        LAMBDA after : [vm |-> after, hs |-> NoteHeight(after, bounds, s.hs)]))

\* n iterations of the loop of VM::run, or fewer if it ends before; the
\* iterations are split in halves to keep the evaluation shallow
RECURSIVE run_n(_, _, _)
run_n(s, bounds, n) ==
    IF ~Running(s.vm) THEN s
    ELSE IF n = 1 THEN run_once(s, bounds)
    ELSE run_n(run_n(s, bounds, n \div 2), bounds, n - n \div 2)

\* VM::run: the loop until the frame stack is empty or the program ends
RECURSIVE run(_, _, _)
run(s, bounds, n) ==
    IF ~Running(s.vm) THEN s ELSE run(run_n(s, bounds, n), bounds, 2 * n)

\* the call of VM::run that ends VM::exec, e being what `exec` left: [vm, hs]
exec_run(e) ==
    run([vm |-> e.vm, hs |-> NoteHeight(e.vm, e.bounds, EmptyFn)], e.bounds, 1)

\* the embedder's call of VM::exec on the program that recurses without end,
\* seen from its return
ExecDeepRun ==
    /\ status = "idle"
    /\ execs < MaxExecs
    /\ \E e \in {exec(VMRec, P_deep)} :
       \E s \in {exec_run(e)} :
         /\ Commit(s.vm)
         /\ execs' = execs + 1
         /\ program' = "deep"
         /\ stmt_bounds' = e.bounds
         /\ heights' = s.hs
         /\ UNCHANGED <<held, roots>>

\* the programs that take the VM to its limits and to its type errors
EdgePrograms ==
    [deep |-> P_deep,
     badcall |-> P_badcall,
     badarith |-> P_badarith,
     literals |-> P_literals]

\* the embedder hands the VM one of them
ExecEdge ==
    /\ status = "idle"
    /\ execs < MaxExecs
    /\ \E p \in DOMAIN EdgePrograms : Loaded(p, exec(VMRec, EdgePrograms[p]))

Next ==
    \/ Exec
    \/ AddNative
    \/ Root
    \/ Unroot
    \/ Trap
    \/ Ret
    \/ Constant
    \/ PrintOp
    \/ Add
    \/ Sub
    \/ Mul
    \/ Div
    \/ Not
    \/ Neg
    \/ Equal
    \/ Greater
    \/ Less
    \/ Jump
    \/ JumpIfFalse
    \/ Pop
    \/ GetGlobal
    \/ SetGlobal
    \/ GetLocal
    \/ SetLocal
    \/ Immediate
    \/ ImmNil
    \/ ImmTrue
    \/ ImmFalse
    \/ CallOp
    \/ Loop
    \/ CloseUpValue
    \/ GetUpValue
    \/ SetUpValue
    \/ ClosureOp
    \/ DefineGlobal
    \/ ListOp
    \/ Rem
    \/ DictOp
    \/ SetElementOp
    \/ GetElementOp
    \/ Pow

Spec == Init /\ [][Next]_vars

\* the VM given only the programs of EdgePrograms
NextEdge ==
    \/ ExecEdge
    \/ ExecDeepRun
    \/ Ret
    \/ Constant
    \/ Add
    \/ Neg
    \/ Pop
    \/ GetGlobal
    \/ Immediate
    \/ ImmNil
    \/ ImmTrue
    \/ ImmFalse
    \/ CallOp
    \/ ClosureOp
    \/ DefineGlobal
    \/ Pow

SpecEdge == Init /\ [][NextEdge]_vars

\* ------------------------------------------------- the compiler on its own
vm_vars == <<stack, frames, globals, open_upvalues, cells, heap, next_gc,
             status, msg, debug, gc_log, closure_log, close_log, frame_seq,
             execs, program, stmt_bounds, heights, held, roots>>

DIGITS == <<"0", "1", "2", "3", "4", "5", "6", "7", "8", "9">>

\* the name of the i-th variable a function declares
LocalName(i) ==
    <<"v", DIGITS[((i \div 100) % 10) + 1], DIGITS[((i \div 10) % 10) + 1],
      DIGITS[(i % 10) + 1]>>

\* Compiler::compile up to its loop: the state of the script function
ScriptCompiler == start_function(Compiler_new(HeapDefault, debug), FALSE, ZubName, 0, 0)

InitLocals ==
    /\ VM_new
    /\ unit = ScriptCompiler

\* the variables the function being compiled has declared so far
Declared == Len(Top(unit).locals) - 1

\* the compiler meets one more Bind of a new local at the top level
DeclareLocal ==
    /\ ~Failed(unit)
    /\ unit' = var_define(unit, Binding_local(LocalName(Declared + 1), 1, 0))
    /\ UNCHANGED vm_vars

NextLocals == DeclareLocal

SpecLocals == InitLocals /\ [][NextLocals]_vars

\* the constant pool of the chunk being compiled
Pool(u) == Top(u.c).constants

\* unit as a call of add_constant or string_constant on value v left it: the
\* compiler and the index returned
\* the outcome of a call on the pool: the compiler after it, the index it
\* returned, the value it was given, and what the first call on each value
\* returned
Called(cr, v) ==
    [c |-> cr.c, r |-> cr.r, v |-> v,
     first |-> IF \E p \in unit.first : p[1] = v THEN unit.first
               ELSE unit.first \cup {<<v, cr.r>>}]

InitConstants ==
    /\ VM_new
    /\ unit = [c |-> ScriptCompiler, r |-> NONE, v |-> nil, first |-> {}]

\* Chunk::add_constant on a value that is not in the pool
AddConstant ==
    /\ ~Failed(unit.c)
    /\ \E v \in {Float(Len(Pool(unit)))} :
         unit' = Called(add_constant(unit.c, v), v)
    /\ UNCHANGED vm_vars

\* Chunk::add_constant on a value that is in the pool: its first or its last
AddConstantAgain ==
    /\ ~Failed(unit.c)
    /\ \E i \in {1, Len(Pool(unit))} \cap DOMAIN Pool(unit) :
         unit' = Called(add_constant(unit.c, Pool(unit)[i]), Pool(unit)[i])
    /\ UNCHANGED vm_vars

PoolStrings == {s_foo, s_bar}

\* Chunk::string_constant on a string of the pool, or on a new one while
\* the pool is short
AddStringConstant ==
    /\ ~Failed(unit.c)
    /\ \E s \in PoolStrings :
         /\ \/ Len(Pool(unit)) < MaxPool
            \/ \E i \in DOMAIN Pool(unit) : IsStringObj(unit.c.heap, Pool(unit)[i], s)
         /\ unit' = Called(string_constant(unit.c, s), [t |-> "Str", s |-> s])
    /\ UNCHANGED vm_vars

\* one more distinct constant while the pool is short
AddDistinct ==
    /\ Len(Pool(unit)) < MaxPool
    /\ AddConstant

\* a chunk given distinct constants until it refuses one
NextConstants == AddConstant

SpecConstants == InitConstants /\ [][NextConstants]_vars

\* a short pool given new and repeated constants in every order
NextPool ==
    \/ AddDistinct
    \/ AddConstantAgain
    \/ AddStringConstant

SpecPool == InitConstants /\ [][NextPool]_vars

\* ------------------------------------------------------- lists and dicts
ListLiteral == << Number(11), Number(22), Number(33) >>

\* the value SetElement stores
Stored == Number(777)

\* the list read at index j
ReadList(j) == Binary(Var(Binding_global(s_bob)), "Index", Number(j))

\* a global list [11, 22, 33] read at every index, set at index i, and read
\* at every index again
ListProgram(i) ==
    << Bind(Binding_global(s_bob), List(ListLiteral)), PopExpr,
       ReadList(0), PopExpr, ReadList(1), PopExpr, ReadList(2), PopExpr,
       SetElement(Var(Binding_global(s_bob)), Number(i), Stored),
       ReadList(0), PopExpr, ReadList(1), PopExpr, ReadList(2), PopExpr >>

\* the statement of ListProgram that sets the element
SetStatement == 9

\* the keys of the four kinds, and for each a second key of the same kind
\* where the kind has one
DictKeys == << Number(1), Boolean(TRUE), NilLit, String(s_fruit) >>
OtherKeys == << Number(2), Boolean(FALSE), String(s_bar), String(s_foo) >>

\* the dict read at key k
ReadDict(k) == Binary(Var(Binding_global(s_d)), "Index", k)

\* a global dict given two entries, then the entry of the n-th key, then
\* read at the three keys
DictProgram(n) ==
    << Bind(Binding_global(s_d), Dict(<< >>, << >>)), PopExpr,
       SetElement(Var(Binding_global(s_d)), String(s_apple), Number(7)),
       SetElement(Var(Binding_global(s_d)), OtherKeys[n], Number(8)),
       SetElement(Var(Binding_global(s_d)), DictKeys[n], Stored),
       ReadDict(DictKeys[n]), PopExpr,
       ReadDict(String(s_apple)), PopExpr,
       ReadDict(OtherKeys[n]), PopExpr >>

ListNames == << "list0", "list1", "list2" >>
DictNames == << "dictnum", "dictbool", "dictnil", "dictstr" >>
ElementNames == ListNames \o DictNames

ElementPrograms ==
    [n \in 1..Len(ElementNames) |->
        IF n <= Len(ListNames) THEN ListProgram(n - 1)
        ELSE DictProgram(n - Len(ListNames))]

\* the embedder hands the VM one of them
ExecElements ==
    /\ status = "idle"
    /\ execs < MaxExecs
    /\ \E n \in DOMAIN ElementNames :
         Loaded(ElementNames[n], exec(VMRec, ElementPrograms[n]))

NextElements ==
    \/ ExecElements
    \/ ListOp
    \/ DefineGlobal
    \/ GetGlobal
    \/ Immediate
    \/ Pop
    \/ SetElementOp
    \/ GetElementOp
    \/ ImmNil
    \/ Ret
    \/ DictOp
    \/ Constant
    \/ ImmTrue
    \/ ImmFalse

SpecElements == Init /\ [][NextElements]_vars

\* ------------------------------------------------------ incremental runs
\* the values the first program binds x to
FromValues == {Number(5), Boolean(TRUE), Boolean(FALSE), NilLit, String(s_hello)}

\* the first program: a top-level local x bound to v
FromBind(v) == << Bind(Binding_local(s_x, 1, 1), v) >>

\* the second program: x read into the global res
FromRead == << Bind(Binding_global(s_res), Var(Binding_local(s_x, 1, 1))) >>

\* the locals an embedder can give the first exec_from: none, or the
\* reserved slot a function starts with
FirstLocals == { << >>, CompileState_new(FALSE, << >>, ZubName, 0, 0).locals }

\* the VM after exec_from, and what exec_from returned
LoadedFrom(p, e, v) ==
    /\ CommitVM(e.vm)
    /\ execs' = execs + 1
    /\ program' = p
    /\ stmt_bounds' = e.bounds
    /\ heights' = NoteHeight(e.vm, e.bounds, EmptyFn)
    /\ unit' = [k |-> "locals", locals |-> e.locals, v |-> v]
    /\ UNCHANGED <<held, roots>>

\* the embedder's first exec_from
ExecFromBind ==
    /\ status = "idle"
    /\ execs = 0
    /\ \E v \in FromValues, l \in FirstLocals :
         LoadedFrom("bind", exec_from(VMRec, FromBind(v), l), v)

\* the embedder's second exec_from, given what the first returned
ExecFromRead ==
    /\ status = "idle"
    /\ program = "bind"
    /\ LoadedFrom("read", exec_from(VMRec, FromRead, unit.locals), unit.v)

NextFrom ==
    \/ ExecFromBind
    \/ ExecFromRead
    \/ Immediate
    \/ ImmTrue
    \/ ImmFalse
    \/ Constant
    \/ ImmNil
    \/ Ret
    \/ GetLocal
    \/ DefineGlobal

SpecFrom == Init /\ [][NextFrom]_vars

\* ---------------------------------------------------------- nested loops
LoopOf(body) == While(Boolean(TRUE), Block(body))

\* the sequences over S of at most n elements
SeqsUpTo(S, n) == UNION {[1..k -> S] : k \in 0..n}

\* a loop body without a loop in it: breaks and pops
InnerLoops == {LoopOf(b) : b \in SeqsUpTo({Break, PopExpr}, MaxBody)}

\* the bodies of the outer loop: breaks, pops and inner loops, in any order
OuterBodies == SeqsUpTo({Break, PopExpr} \cup InnerLoops, MaxBody) \ {<< >>}

InitLoops ==
    /\ VM_new
    /\ unit = NoUnit

\* Compiler::compile on a program that is one loop
CompileLoop ==
    /\ unit = NoUnit
    /\ \E b \in OuterBodies :
         \E cf \in {compile(Compiler_new(HeapDefault, debug), <<LoopOf(b)>>)} :
            unit' = [k |-> "loop", body |-> b, code |-> cf.f.code, err |-> cf.c.err]
    /\ UNCHANGED vm_vars

NextLoops == CompileLoop

SpecLoops == InitLoops /\ [][NextLoops]_vars

\* ------------------------------------------------------ the heap on its own
\* the client of a Heap<Object>: the heap, the number of Rooted handles it
\* holds for each object, the last call it made and the one before
Handles == 1..MaxObjects

NoCall == [op |-> "none", ex |-> {}, freed |-> {}, kept |-> {}]

HeapUnit(hp, holds, made) ==
    [heap |-> hp, holds |-> holds, last |-> made,
     prev |-> IF made.op = "clean" THEN unit.last ELSE NoCall]

InitHeap ==
    /\ VM_new
    /\ unit = [heap |-> HeapDefault, holds |-> [h \in Handles |-> 0],
               last |-> NoCall, prev |-> NoCall]

\* the objects the client makes: a string, or a list of at most one object
NewObjects(hp) ==
    {[kind |-> "String", str |-> s_foo], [kind |-> "List", content |-> << >>]}
       \cup {[kind |-> "List", content |-> <<object(h)>>] : h \in hp.objects}

\* Heap::insert, the Rooted kept
HeapInsert ==
    /\ unit.heap.obj_counter < MaxObjects
    /\ \E obj \in NewObjects(unit.heap) :
         \E h1 \in {insert(unit.heap, obj)} :
            unit' = HeapUnit(h1, [unit.holds EXCEPT ![NewHandle(h1)] = 1],
                             NoCall)
    /\ UNCHANGED vm_vars

\* Heap::make_rooted on a handle of a live object the client holds no
\* Rooted for
HeapMakeRooted ==
    /\ \E h \in unit.heap.objects :
         /\ unit.holds[h] = 0
         /\ unit' = HeapUnit(make_rooted(unit.heap, h),
                             [unit.holds EXCEPT ![h] = @ + 1],
                             NoCall)
    /\ UNCHANGED vm_vars

\* a Rooted is dropped
HeapDropRooted ==
    /\ \E h \in Handles :
         /\ unit.holds[h] > 0
         /\ unit' = HeapUnit(into_handle(unit.heap, h),
                             [unit.holds EXCEPT ![h] = @ - 1],
                             NoCall)
    /\ UNCHANGED vm_vars

\* Heap::get_mut on an empty list, which is given an element
HeapListPush ==
    /\ \E h \in unit.heap.objects, g \in unit.heap.objects :
         /\ unit.heap.store[h].kind = "List"
         /\ unit.heap.store[h].content = << >>
         /\ unit' = HeapUnit([unit.heap EXCEPT !.store[h].content = <<object(g)>>],
                             unit.holds, NoCall)
    /\ UNCHANGED vm_vars

\* Heap::clean_excluding on any set of handles the heap has given out
\* (Heap::clean is the empty set)
HeapClean ==
    /\ unit.heap.last_sweep < MaxCleans
    /\ \E ex \in SUBSET (1..unit.heap.obj_counter) :
         \E h1 \in {clean_excluding(unit.heap, SetToSeq(ex), EmptyFn)} :
            unit' = HeapUnit(h1, unit.holds,
                             [op |-> "clean", ex |-> ex,
                              freed |-> unit.heap.objects \ h1.objects,
                              kept |-> h1.objects])
    /\ UNCHANGED vm_vars

NextHeap ==
    \/ HeapInsert
    \/ HeapMakeRooted
    \/ HeapDropRooted
    \/ HeapListPush
    \/ HeapClean

SpecHeap == InitHeap /\ [][NextHeap]_vars

\* --------------------------------------------------- calls of every arity
\* one more parameter name than a call can pass arguments
CallParams ==
    << Binding_local(s_a, 2, 1), Binding_local(s_b, 2, 1),
       Binding_local(s_c, 2, 1), Binding_local(s_d, 2, 1),
       Binding_local(s_e, 2, 1), Binding_local(s_g, 2, 1),
       Binding_local(s_h, 2, 1), Binding_local(s_i, 2, 1),
       Binding_local(s_n, 2, 1) >>

\* a global function of a parameters, called once with a arguments
CallProgram(a) ==
    << Function(Binding_global(s_go), SubSeq(CallParams, 1, a),
                << Return(Number(a)) >>),
       Call(Var(Binding_global(s_go)), [i \in 1..a |-> Number(i)]) >>

CallNames ==
    << "call0", "call1", "call2", "call3", "call4",
       "call5", "call6", "call7", "call8", "call9" >>

\* the number of arguments of the call in the loaded program
CallArgs == CHOOSE a \in 0..(MAX_CALL_ARGS + 1) : CallNames[a + 1] = program

\* the embedder hands the VM one of them
ExecCalls ==
    /\ status = "idle"
    /\ execs < MaxExecs
    /\ \E a \in 0..(MAX_CALL_ARGS + 1) :
         Loaded(CallNames[a + 1], exec(VMRec, CallProgram(a)))

NextCalls ==
    \/ ExecCalls
    \/ ClosureOp
    \/ DefineGlobal
    \/ GetGlobal
    \/ Immediate
    \/ CallOp
    \/ Ret
    \/ ImmNil

SpecCalls == Init /\ [][NextCalls]_vars

\* ------------------------------------------------------------- properties
\* the handles an object refers to: function constants, closed closure
\* upvalue values, list elements, dict values (cs: the upvalue cells)
Refs(obj, cs) ==
    CASE obj.kind = "Function" -> HandlesOf(obj.constants)
      [] obj.kind = "Closure" ->
            HandlesOf(obj.function.constants) \cup
            {cs[u].val.v : u \in {w \in Range(obj.upvalues) :
                                     ~cs[w].open /\ IsObj(cs[w].val)}}
      [] obj.kind = "List" -> HandlesOf(obj.content)
      [] obj.kind = "Dict" ->
            {obj.content[i].val.v :
                i \in {j \in 1..Len(obj.content) : IsObj(obj.content[j].val)}}
      [] OTHER -> {}

RECURSIVE ReachFrom(_, _, _)
\* the live objects reachable from the handles S in heap hp
ReachFrom(S, hp, cs) ==
    LET T == S \cup UNION {Refs(hp.store[h], cs) \cap hp.objects : h \in S}
    IN IF T = S THEN S ELSE ReachFrom(T, hp, cs)

GlobalHandles(gs) == {gs[g].v : g \in {x \in DOMAIN gs : IsObj(gs[x])}}

ClosedHandles(ups, cs) ==
    {cs[u].val.v : u \in {w \in Range(ups) : ~cs[w].open /\ IsObj(cs[w].val)}}

\* the roots at the collection gc_log records: globals, operand stack,
\* closed values in the open-upvalue list, Rooted handles still held
GcRoots ==
    (GlobalHandles(gc_log.globals) \cup HandlesOf(gc_log.stack)
        \cup ClosedHandles(gc_log.open_upvalues, gc_log.cells) \cup held)
    \cap gc_log.before.objects

\* C1: a collection never frees an object reachable from a global, a stack
\* value, a closed value in the open-upvalue list or a rooted handle.
C1_GcKeepsReachable ==
    gc_log.n > 0 =>
        ReachFrom(GcRoots, gc_log.before, gc_log.cells) \subseteq gc_log.after

\* a collection freed something and kept an object that only a global
\* reaches, through a list
C1_Witness ==
    /\ gc_log.n > 0
    /\ gc_log.after # gc_log.before.objects
    /\ \E h \in gc_log.after :
          /\ h \in ReachFrom(GlobalHandles(gc_log.globals) \cap gc_log.before.objects,
                             gc_log.before, gc_log.cells)
          /\ h \notin GlobalHandles(gc_log.globals)
          /\ h \notin ReachFrom((HandlesOf(gc_log.stack) \cup {gc_log.handle})
                                   \cap gc_log.before.objects,
                                gc_log.before, gc_log.cells)

\* a collection kept an object only because the embedder holds its Rooted
C1_WitnessRooted ==
    /\ gc_log.n > 0
    /\ gc_log.after # gc_log.before.objects
    /\ \E h \in held \cap gc_log.after :
          h \notin ReachFrom((GlobalHandles(gc_log.globals) \cup HandlesOf(gc_log.stack)
                                 \cup {gc_log.handle}) \cap gc_log.before.objects,
                             gc_log.before, gc_log.cells)

\* C2: after VM::exec has run a program to completion the operand stack
\* and the frame stack are empty.
C2_ExecLeavesStacksEmpty ==
    (status = "idle" /\ execs > 0) => (stack = <<>> /\ frames = <<>>)

\* the current frame's closure is a live closure
FrameLive ==
    /\ frames # <<>>
    /\ contains(heap, Last(frames).closure)
    /\ heap.store[Last(frames).closure].kind = "Closure"

\* the function the current frame runs
FrameFunction == heap.store[Last(frames).closure].function

\* C3: the position of a local in the compiler's locals vector is its
\* run-time offset from the frame base: when execution stands where the
\* compiler defined local idx, the value just bound, on top of the stack,
\* is at stack_start + idx, the slot GetLocal idx and SetLocal idx use.
C3_LocalSlotIsOffset ==
    (status = "running" /\ FrameLive) =>
        \A s \in Range(FrameFunction.bind_sites) :
            s.ip = Last(frames).ip =>
                Len(stack) - 1 = Last(frames).stack_start + s.idx

\* the expression forms C4 speaks of
IsValueExpr(e) ==
    \/ e.k \in {"Literal", "Var", "Unary", "Not", "Neg", "Call", "Function",
                "AnonFunction", "If", "List", "Dict", "GetElement", "SetElement"}
    \/ e.k = "Binary"

\* C4: the code of a value expression raises the stack height by exactly
\* one on every path: for a top-level statement of such a form, the height
\* after it is the height before it plus one.
C4_NetPushOne ==
    \A i \in 1..Len(Programs[program]) :
        (IsValueExpr(Programs[program][i])
            /\ i \in DOMAIN heights /\ (i - 1) \in DOMAIN heights)
        => heights[i] = heights[i - 1] + 1

\* the frame ids of the live frames
LiveFrames == {frames[i].id : i \in 1..Len(frames)}

\* C5: two closures capturing the same local slot of the same live frame
\* hold the same upvalue cell: no two cells stand for one slot of one live
\* frame.
C5_OneCellPerSlot ==
    \A c1, c2 \in 1..Len(cells) :
        (c1 # c2 /\ cells[c1].frame_id = cells[c2].frame_id
            /\ cells[c1].slot = cells[c2].slot)
        => cells[c1].frame_id \notin LiveFrames

\* the instruction the next iteration of VM::run decodes: its opcode, its
\* first operand byte and the upvalues of the running closure
NextOp ==
    IF status = "running" /\ FrameLive
       /\ Last(frames).ip + 2 <= Len(FrameFunction.code)
    THEN [op |-> FrameFunction.code[Last(frames).ip + 1],
          arg |-> FrameFunction.code[Last(frames).ip + 2],
          upvalues |-> heap.store[Last(frames).closure].upvalues]
    ELSE [op |-> NONE, arg |-> 0, upvalues |-> <<>>]

\* the closed cell the next instruction addresses, 0 if it addresses none
ClosedTarget(op) ==
    IF NextOp.op = op /\ NextOp.arg < Len(NextOp.upvalues)
       /\ ~cells[NextOp.upvalues[NextOp.arg + 1]].open
    THEN NextOp.upvalues[NextOp.arg + 1]
    ELSE 0

\* a close ran in this step: every cell that was open with slot >= the
\* threshold is closed and holds what the stack held at its slot
CloseEffect ==
    close_log'.n # close_log.n =>
        \A c \in 1..Len(close_log'.cells) :
            (close_log'.cells[c].open /\ close_log'.cells[c].slot >= close_log'.stack_end)
            => /\ ~cells'[c].open
               /\ cells'[c].val = close_log'.stack[close_log'.cells[c].slot + 1]

\* GetUpValue on a closed cell pushes the cell's value
ClosedRead ==
    (ClosedTarget(OP_GetUpValue) # 0 /\ status' \in {"running", "idle"})
    => /\ stack' = Append(stack, cells[ClosedTarget(OP_GetUpValue)].val)
       /\ cells' = cells

\* SetUpValue on a closed cell writes the cell and leaves the stack alone
ClosedWrite ==
    (ClosedTarget(OP_SetUpValue) # 0 /\ status' \in {"running", "idle"})
    => /\ cells' = [cells EXCEPT ![ClosedTarget(OP_SetUpValue)].val = Last(stack)]
       /\ stack' = stack

\* C6: closing with threshold t closes every upvalue open with slot >= t
\* over the value stack[slot] has at that moment, and reads and writes
\* through a closed upvalue use the cell, not the stack.
C6_CloseCopiesAndDetaches ==
    [][CloseEffect /\ ClosedRead /\ ClosedWrite]_vars

\* a cell closed at a Return over the value of its slot has since been
\* written through SetUpValue: it no longer holds the value it was closed
\* over, and the stack was not touched
C6_Witness ==
    /\ close_log.n > 0
    /\ \E c \in 1..Len(close_log.cells) :
          /\ close_log.cells[c].open
          /\ close_log.cells[c].slot >= close_log.stack_end
          /\ ~cells[c].open
          /\ cells[c].val # close_log.stack[close_log.cells[c].slot + 1]

\* where the compiler wrote the Closure instruction the VM last decoded
SiteOf(log) ==
    {s \in Range(log.function.closure_sites) : s.op_ip = log.op_ip}

\* C7: for a function with at least one upvalue the Closure handler reads
\* the constant index from the byte the compiler wrote it to and the pairs
\* from the bytes the compiler wrote them to.
C7_ClosureOperandOrder ==
    closure_log.n > 0 =>
        \A s \in SiteOf(closure_log) :
            s.n >= 1 => /\ closure_log.const_ip = s.const_ip
                        /\ closure_log.pairs_ip = s.pair_ips[1]

\* C8: a Closure execution consumes as many pairs as the upvalue_count of
\* the function it instantiates, which is the number of pairs the compiler
\* wrote, and the next instruction is decoded where the compiler put it.
C8_ClosurePairCount ==
    (closure_log.n > 0 /\ closure_log.ok) =>
        \A s \in SiteOf(closure_log) :
            /\ closure_log.pairs = closure_log.count
            /\ closure_log.count = s.n
            /\ closure_log.end_ip = s.end_ip

\* C9: tests::recursion, a named function that reaches its own binding as
\* an upvalue, compiles and runs without an error.
C9_RecursionCompiles ==
    program = "recursion" => status \in {"idle", "running"}

\* C10: in examples/mini.rs the function baz nested in foo reads bar, a
\* local of the top level, through an upvalue threaded through foo: the
\* program runs to the end and binds gangster to 10 + bar.
C10_GrandparentCapture ==
    program = "mini" =>
        /\ status \in {"idle", "running"}
        /\ status = "idle" =>
              /\ s_gangster \in DOMAIN globals
              /\ globals[s_gangster] = Float(23)

\* the functions the compiler has built: the function objects of the heap
\* and the functions inside its closures
CompiledFunctions ==
    {heap.store[h] : h \in {x \in DOMAIN heap.store : heap.store[x].kind = "Function"}}
    \cup {heap.store[h].function :
             h \in {x \in DOMAIN heap.store : heap.store[x].kind = "Closure"}}

\* C11: whenever a function's compile state holds an upvalue with
\* is_local = true and index i, local i of the enclosing function's compile
\* state is marked captured: when the upvalue is added and still when the
\* function's state is popped.
C11_IsLocalImpliesCaptured ==
    \A f \in CompiledFunctions :
        \A o \in Range(f.capture_obs) : o.captured

\* a compiled function captured a local of its parent, and the flag was
\* seen set both when the upvalue was added and when the function ended
C11_Witness ==
    \E f \in CompiledFunctions :
        /\ \E o \in Range(f.capture_obs) : o.at = "add" /\ o.captured
        /\ \E o \in Range(f.capture_obs) : o.at = "end" /\ o.captured /\ o.index > 0

\* C12: tests::actual_real_functions: foo(a, b) with body `return a + b`,
\* called with 10 and 30, yields 40, and that is the value the call leaves
\* for the bind of bar: the program runs without an error and binds bar
\* to 40.
C12_CallYieldsBody ==
    program = "functions" =>
        /\ status \in {"idle", "running"}
        /\ status = "idle" =>
              /\ s_bar \in DOMAIN globals
              /\ globals[s_bar] = Float(40)

\* the opcode the next iteration of VM::run decodes, NONE if there is none
ThisOp ==
    IF status = "running" /\ FrameLive
       /\ Last(frames).ip + 1 <= Len(FrameFunction.code)
    THEN FrameFunction.code[Last(frames).ip + 1]
    ELSE NONE

\* the arity of the Call the next iteration decodes
CallArity == ThisOp - OP_Call

\* C13: a Call(a) that pushes a frame pushes it with ip = 0 and
\* stack_start = stack_len - a - 1; the stack is left as it is, the value at
\* stack_start is the callee, a closure of arity a, and the a arguments are
\* the values above it.
C13_CallFrameLayout ==
    [][(CallArity \in 0..MAX_CALL_ARGS /\ Len(frames') = Len(frames) + 1)
        => /\ Last(frames').ip = 0
           /\ Last(frames').stack_start = Len(stack) - CallArity - 1
           /\ Last(frames').stack_start >= 0
           /\ stack' = stack
           /\ stack[Last(frames').stack_start + 1] = object(Last(frames').closure)
           /\ heap.store[Last(frames').closure].kind = "Closure"
           /\ heap.store[Last(frames').closure].function.arity = CallArity
           /\ Front(frames') = [frames EXCEPT ![Len(frames)].ip = @ + 1]]_vars

\* a Call(8) has just pushed its frame above a caller
C13_Witness ==
    /\ status = "running" /\ FrameLive
    /\ Len(frames) >= 2
    /\ Last(frames).ip = 0
    /\ FrameFunction.arity = MAX_CALL_ARGS
    /\ Last(frames).stack_start = Len(stack) - MAX_CALL_ARGS - 1
    /\ stack[Len(stack)] = Float(8)

\* C14: Return in a frame whose stack_start is s removes that frame and no
\* other, and leaves the operand stack with length s + 1, the value that
\* was on top on top, and the s values below the frame as they were.
C14_ReturnEffect ==
    [][(ThisOp = OP_Return /\ frames # <<>>)
        => /\ status' \in {"running", "idle"}
           /\ frames' = Front(frames)
           /\ Len(stack') = Last(frames).stack_start + 1
           /\ Last(stack') = Last(stack)
           /\ SubSeq(stack', 1, Last(frames).stack_start)
                 = SubSeq(stack, 1, Last(frames).stack_start)]_vars

\* a callee with parameters and a caller below it has just returned: the
\* frame is gone and the returned value sits where the callee was
C14_Witness ==
    /\ program = "arity" /\ status = "running"
    /\ Len(frames) = 1
    /\ Len(stack) = 3
    /\ Last(stack) = Float(7)
    /\ heights = (0 :> 1 @@ 1 :> 2)

\* a value VM::call can call: a live closure or native function
Callable(val) ==
    /\ IsObj(val) /\ contains(heap, val.v)
    /\ heap.store[val.v].kind \in {"Closure", "NativeFunction"}

\* C15: a Call whose callee is neither a closure nor a native function is
\* fatal: the step that decodes it ends the execution.
C15_NonCallableIsFatal ==
    [][(CallArity \in 0..MAX_CALL_ARGS /\ Len(stack) > CallArity
            /\ ~Callable(stack[Len(stack) - CallArity]))
        => status' \notin {"running", "idle"}]_vars

\* the operands the next instruction pops: one for Neg, two for Add and Pow
ArithOperands ==
    IF ThisOp = OP_Neg /\ Len(stack) >= 1 THEN {Last(stack)}
    ELSE IF ThisOp \in {OP_Add, OP_Pow} /\ Len(stack) >= 2
    THEN {stack[Len(stack) - 1], Last(stack)}
    ELSE {}

\* C16: Add, Pow or Neg applied to a boolean or nil operand is fatal: the
\* step that decodes it ends the execution.
C16_NonNumericArithIsFatal ==
    [][(\E a \in ArithOperands : a.t \notin {"Float", "Obj"})
        => status' \notin {"running", "idle"}]_vars

\* what the instruction set documents for a binary operator on the numbers a
\* (pushed first) and b (pushed second); a quotient that is not a whole
\* number is kept symbolic
Documented(op, a, b) ==
    CASE op = OP_Sub -> Float(a - b)
      [] op = OP_Mul -> Float(a * b)
      [] op = OP_Div -> Float(IF b # 0 /\ a % b = 0 THEN a \div b
                              ELSE <<"quot", a, b>>)
      [] op = OP_Rem -> Float(IF b > 0 /\ a >= 0 THEN a % b
                              ELSE <<"rem", a, b>>)
      [] op = OP_Greater -> FromBool(a > b)
      [] op = OP_Less -> FromBool(a < b)

\* C17: on two numbers a (below) and b (on top), Sub, Mul, Div, Rem, Greater
\* and Less pop both and push a - b, a * b, a / b, a mod b, a > b and a < b.
C17_BinaryOpResults ==
    [][(/\ ThisOp \in {OP_Sub, OP_Mul, OP_Div, OP_Rem, OP_Greater, OP_Less}
        /\ Len(stack) >= 2
        /\ stack[Len(stack) - 1].t = "Float" /\ Last(stack).t = "Float")
        => stack' = Append(SubSeq(stack, 1, Len(stack) - 2),
                           Documented(ThisOp, stack[Len(stack) - 1].v,
                                      Last(stack).v))]_vars

\* the capacity VM::new gives the frame stack
FRAMES_CAPACITY == 256

\* C18: the frame stack never holds more than 256 frames.
C18_FramesCapped == Len(frames) <= FRAMES_CAPACITY

\* the instructions that push a value and pop none
PushingOps ==
    {OP_Constant, OP_GetGlobal, OP_GetLocal, OP_GetUpValue, OP_Immediate,
     OP_Nil, OP_True, OP_False, OP_Closure}

\* C19: the operand stack never holds more than 4096 values: the overflow
\* panic is raised with exactly 4096 values on the stack, and an instruction
\* that would push one more ends the execution and leaves the stack as it is.
C19_StackCapped ==
    /\ [](/\ Len(stack) <= STACK_SIZE
          /\ msg = "STACK OVERFLOW" => Len(stack) = STACK_SIZE)
    /\ [][(Len(stack) = STACK_SIZE /\ ThisOp \in PushingOps)
            => (status' = "panic" /\ msg' = "STACK OVERFLOW" /\ stack' = stack)]_vars

C19_Witness ==
    /\ status = "panic" /\ msg = "STACK OVERFLOW"
    /\ Len(stack) = STACK_SIZE
    /\ Len(frames) > FRAMES_CAPACITY

\* the numbers whose immediates are compared
NumberLiterals == -70..70

\* the global `name` holds the string s
GlobalIsString(name, s) ==
    /\ name \in DOMAIN globals
    /\ IsObj(globals[name]) /\ contains(heap, globals[name].v)
    /\ heap.store[globals[name].v] = [kind |-> "String", str |-> s]

\* C20: a global bound to a literal and then read yields the literal (number,
\* string, boolean, nil), and the eight bytes the compiler writes for a
\* number are read back by the VM as that number.
C20_GlobalLiteralRoundTrip ==
    /\ \A n \in NumberLiterals : ValueFromBytes(F64Bytes(n)) = Float(n)
    /\ [](program = "literals" =>
            /\ status \in {"idle", "running"}
            /\ status = "idle" =>
                 /\ {s_a, s_c, s_d} \subseteq DOMAIN globals
                 /\ globals[s_a] = Float(-5)
                 /\ GlobalIsString(s_b, s_hello)
                 /\ globals[s_c] = truelit
                 /\ globals[s_d] = nil)
    /\ [][(program = "literals" /\ ThisOp = OP_GetGlobal)
            => /\ status' = "running"
               /\ stack' = Append(stack, Last(stack))
               /\ Last(stack) \in {Float(-5), truelit, nil}
                    \/ /\ IsObj(Last(stack)) /\ contains(heap, Last(stack).v)
                       /\ heap.store[Last(stack).v]
                            = [kind |-> "String", str |-> s_hello]]_vars

C20_Witness ==
    /\ program = "literals" /\ status = "idle"
    /\ s_d \in DOMAIN globals /\ globals[s_a] = Float(-5)
    /\ GlobalIsString(s_b, s_hello)

\* C21: the first 255 variables a function declares are accepted and the
\* 256th is refused by the compiler.
C21_LocalsLimit ==
    [][IF Declared < U8_MAX
       THEN /\ ~Failed(unit')
            /\ Len(Top(unit').locals) = Len(Top(unit).locals) + 1
       ELSE Failed(unit')]_vars

\* C22: a chunk accepts 1024 pairwise distinct constants and refuses the
\* 1025th.
C22_ConstantsLimit ==
    [][(unit'.v.t = "Float" /\ \A i \in DOMAIN Pool(unit) : Pool(unit)[i] # unit'.v)
        => IF Len(Pool(unit)) < 1024
           THEN /\ ~Failed(unit'.c)
                /\ Pool(unit') = Append(Pool(unit), unit'.v)
           ELSE Failed(unit'.c)]_vars

\* the bytes Op::write gives the instructions other than Call
OpcodeBytes ==
    << OP_Return, OP_Constant, OP_Print, OP_Add, OP_Sub, OP_Mul, OP_Div,
       OP_Not, OP_Neg, OP_Equal, OP_Greater, OP_Less, OP_Jump,
       OP_JumpIfFalse, OP_Pop, OP_GetGlobal, OP_SetGlobal, OP_GetLocal,
       OP_SetLocal, OP_Immediate, OP_Nil, OP_True, OP_False, OP_Loop,
       OP_CloseUpValue, OP_GetUpValue, OP_SetUpValue, OP_Closure,
       OP_DefineGlobal, OP_List, OP_Rem, OP_Dict, OP_SetElement,
       OP_GetElement, OP_Pow >>

CallBytes == OP_Call..(OP_Call + MAX_CALL_ARGS)

\* C23: a call with a arguments, a in 0..8, is the single byte 0x17 + a and
\* the decoder runs call(a) on it: the frame of the called function of a
\* parameters is pushed over the a arguments without an arity error; no
\* other instruction is written in 0x17..0x1f and the opcode bytes are
\* pairwise distinct; a call with 9 arguments does not compile.
C23_CallEncoding ==
    /\ OP_Call = 23
    /\ \A i \in DOMAIN OpcodeBytes :
         /\ OpcodeBytes[i] \notin CallBytes
         /\ \A j \in DOMAIN OpcodeBytes : i # j => OpcodeBytes[i] # OpcodeBytes[j]
    /\ [](execs > 0 =>
            IF CallArgs > MAX_CALL_ARGS
            THEN /\ status = "panic"
                 /\ msg = "That's a lot of arguments"
                 /\ frames = << >>
            ELSE status \in {"running", "exit", "idle"})
    /\ [][(ThisOp \in CallBytes) =>
           (/\ ThisOp = OP_Call + CallArgs
            /\ status' = "running"
            /\ Len(frames') = Len(frames) + 1
            /\ stack' = stack
            /\ Last(frames').stack_start = Len(stack) - CallArgs - 1
            /\ deref(VMRec, Last(frames').closure).function.arity = CallArgs
            /\ frames'[1].ip = frames[1].ip + 1)]_vars

\* the function of 8 parameters is running on its 8 arguments
C23_Witness ==
    /\ execs > 0
    /\ CallArgs = MAX_CALL_ARGS
    /\ status = "running"
    /\ Len(frames) = 2
    /\ Last(frames).ip = 0
    /\ Last(frames).stack_start = Len(stack) - MAX_CALL_ARGS - 1

\* what the first call on the value v returned
FirstIndex(v) == (CHOOSE p \in unit.first : p[1] = v)[2]

\* C24: add_constant on a value, or string_constant on a string content, that
\* an earlier call on the same chunk was given returns the index the first
\* call returned, leaves the pool as it is and leaves the heap as it is,
\* whatever other constants were added in between.
C24_ConstantDedup ==
    [][(\E p \in unit.first : p[1] = unit'.v) =>
          (/\ ~Failed(unit'.c)
           /\ unit'.r = FirstIndex(unit'.v)
           /\ Pool(unit') = Pool(unit)
           /\ unit'.c.heap = unit.c.heap)]_vars

\* a string was added first, the pool was filled with other constants, and
\* string_constant on the same content returned index 0 again
C24_Witness ==
    /\ unit.v = [t |-> "Str", s |-> s_foo]
    /\ unit.r = 0
    /\ Len(Pool(unit)) = MaxPool
    /\ Cardinality(DOMAIN unit.c.heap.store) = 1

\* C25: a collection run right after a collection with the same excluded
\* handles, nothing done to the heap or to the Rooted handles in between,
\* frees nothing and keeps every object the first one kept.
C25_GcIdempotent ==
    (unit.last.op = "clean" /\ unit.prev.op = "clean" /\ unit.last.ex = unit.prev.ex)
        => /\ unit.last.freed = {}
           /\ unit.last.kept = unit.prev.kept

\* the first of two such collections freed an object and kept another
C25_Witness ==
    /\ unit.last.op = "clean"
    /\ unit.prev.op = "clean"
    /\ unit.last.ex = unit.prev.ex
    /\ unit.prev.freed # {}
    /\ unit.prev.kept # {}

RECURSIVE HeapReach(_, _)
\* the handles reachable from the handles S through the objects of heap hp,
\* freed or not
HeapReach(S, hp) ==
    LET T == S \cup UNION {Refs(hp.store[h], EmptyFn) : h \in S \cap DOMAIN hp.store}
    IN IF T = S THEN S ELSE HeapReach(T, hp)

\* C26: while the client holds a Rooted for an object, got from Heap::insert
\* or from Heap::make_rooted, the object and every object reachable from it
\* are in the heap, whatever handles the collections were told to exclude.
C26_RootedNeverFreed ==
    \A h \in Handles :
        unit.holds[h] > 0 => HeapReach({h}, unit.heap) \subseteq unit.heap.objects

\* a collection that excluded nothing has just run; the client holds a
\* Rooted for a list, and the list's element, for which it holds none, is
\* still in the heap
C26_Witness ==
    /\ unit.last.op = "clean"
    /\ unit.last.ex = {}
    /\ \E h \in unit.heap.objects, g \in unit.heap.objects :
          /\ h # g
          /\ unit.holds[h] > 0
          /\ unit.holds[g] = 0
          /\ unit.heap.store[h] = [kind |-> "List", content |-> <<object(g)>>]

\* the index ListProgram sets
SetIndex == CHOOSE i \in 0..2 : ListNames[i + 1] = program

\* the SetElement statement of the loaded program has been executed
SetDone == frames # << >> /\ frames[1].ip >= stmt_bounds[SetStatement]

\* what the list holds at index j according to the program text
ExpectedAt(j) ==
    IF SetDone /\ j = SetIndex THEN Float(Stored.n) ELSE Float(ListLiteral[j + 1].n)

KeyKind == CHOOSE n \in DOMAIN DictNames : DictNames[n] = program

\* the top-level statement the next instruction belongs to
ThisStmt ==
    CHOOSE i \in DOMAIN stmt_bounds :
        /\ frames[1].ip < stmt_bounds[i]
        /\ \A j \in 1..(i - 1) : frames[1].ip >= stmt_bounds[j]

\* the entry the read in statement i of DictProgram is to find
ExpectedEntry(i) ==
    CASE i = 6 -> Float(Stored.n)
      [] i = 8 -> Float(7)
      [] i = 10 -> Float(8)

\* C28: for a key of each kind (number, boolean, nil, string), after
\* SetElement(d, k, v) a read at k gives v and the reads at the keys that
\* differ from k give what was stored under them; the key SetElement builds
\* for a value and the key GetElement builds for it are equal.
C28_DictKeys ==
    /\ [](program \in Range(DictNames) => status # "panic")
    /\ [][(program \in Range(DictNames) /\ ThisOp = OP_GetElement) =>
            (/\ status' = "running"
             /\ stack' = Append(SubSeq(stack, 1, Len(stack) - 2),
                                ExpectedEntry(ThisStmt))
             /\ to_hash(VMRec, stack[Len(stack) - 1]).r
                  = set_element_key(VMRec, stack[Len(stack) - 1]).r)]_vars

\* the same for the keys that are not numbers
C28_OtherKinds ==
    /\ [](program \in (Range(DictNames) \ {"dictnum"}) => status # "panic")
    /\ [][(program \in (Range(DictNames) \ {"dictnum"}) /\ ThisOp = OP_GetElement) =>
            (/\ status' = "running"
             /\ stack' = Append(SubSeq(stack, 1, Len(stack) - 2),
                                ExpectedEntry(ThisStmt))
             /\ to_hash(VMRec, stack[Len(stack) - 1]).r
                  = set_element_key(VMRec, stack[Len(stack) - 1]).r)]_vars

\* the value of the literal e in the VM's state
IsValueOf(val, e) ==
    CASE e.t = "Number" -> val = Float(e.n)
      [] e.t = "Boolean" -> val = FromBool(e.b)
      [] e.t = "Nil" -> val = nil
      [] e.t = "String" ->
            /\ IsObj(val) /\ contains(heap, val.v)
            /\ heap.store[val.v] = [kind |-> "String", str |-> e.s]

\* C29: the second exec_from, given the locals the first returned, reads
\* the value the first bound x to: it ends without an error, with the global
\* it stores x in holding that value.
C29_ExecFromCarriesLocals ==
    /\ program = "read" => status # "panic"
    /\ (program = "read" /\ status = "idle") =>
          (s_res \in DOMAIN globals /\ IsValueOf(globals[s_res], unit.v))

RECURSIVE CodeSize(_)
RECURSIVE BodySize(_, _)
\* the number of bytes the expression e of a loop nest compiles to: a loop
\* is its condition (1), JumpIfFalse (3), Pop, the body, Loop (3), Pop
CodeSize(e) ==
    CASE e.k = "Break" -> 3
      [] e.k = "Pop" -> 1
      [] e.k = "While" -> 5 + BodySize(e.body.body, 1) + 4

BodySize(body, i) ==
    IF i > Len(body) THEN 0 ELSE CodeSize(body[i]) + BodySize(body, i + 1)

RECURSIVE BreakTargets(_, _, _, _)
\* for the body of a loop, from its i-th expression on, which starts at
\* offset off: the offset of each Break's jump operand, paired with the
\* offset after the exit Pop of the innermost loop around that Break
BreakTargets(body, i, off, after) ==
    IF i > Len(body) THEN {}
    ELSE (CASE body[i].k = "Break" -> {<<off + 1, after>>}
            [] body[i].k = "While" ->
                  BreakTargets(body[i].body.body, 1, off + 5, off + CodeSize(body[i]))
            [] OTHER -> {})
         \cup BreakTargets(body, i + 1, off + CodeSize(body[i]), after)

\* the target written at the jump operand at offset pos
JumpTarget(code, pos) == code[pos + 1] + 256 * code[pos + 2]

\* C30: every Break of a nest of loops is a jump to the instruction after
\* the exit Pop of the innermost loop around it, wherever it stands in the
\* body, before or after a nested loop.
C30_BreakTargets ==
    unit.k = "loop" =>
        /\ unit.err = ""
        /\ \A p \in BreakTargets(unit.body, 1, 5, CodeSize(LoopOf(unit.body))) :
              /\ unit.code[p[1]] = OP_Jump
              /\ JumpTarget(unit.code, p[1]) = p[2]

\* the same for the loops whose Breaks all follow the nested loops
C30_BreaksAfterLoops ==
    (unit.k = "loop"
        /\ \A i \in DOMAIN unit.body, j \in DOMAIN unit.body :
              (unit.body[i].k = "Break" /\ unit.body[j].k = "While") => j < i) =>
        /\ unit.err = ""
        /\ \A p \in BreakTargets(unit.body, 1, 5, CodeSize(LoopOf(unit.body))) :
              /\ unit.code[p[1]] = OP_Jump
              /\ JumpTarget(unit.code, p[1]) = p[2]

\* -------------------------------------------------------- And and Or
\* the operands: the left ones of both kinds of truth, the right ones told
\* apart from what the global m holds before
LogicLhs == {Number(0), Number(1), Boolean(TRUE), Boolean(FALSE), NilLit, String(s_hello)}
LogicRhs == {Number(7), Boolean(TRUE), Boolean(FALSE), NilLit}
Untouched == Number(9)

\* m is bound, then `l op (m = r)` stands as a statement: the right operand
\* leaves its mark in m when it is evaluated
LogicProgram(op, l, r) ==
    << Bind(Binding_global(s_more), Untouched),
       Binary(l, op, Mutate(Var(Binding_global(s_more)), r)) >>

LoadedLogic(op, l, r) ==
    LET e == exec(VMRec, LogicProgram(op, l, r))
    IN /\ CommitVM(e.vm)
       /\ execs' = execs + 1
       /\ program' = "logic"
       /\ stmt_bounds' = e.bounds
       /\ heights' = NoteHeight(e.vm, e.bounds, EmptyFn)
       /\ unit' = [k |-> "logic", op |-> op, lhs |-> l, rhs |-> r]
       /\ UNCHANGED <<held, roots>>

ExecLogic ==
    /\ status = "idle"
    /\ execs < MaxExecs
    /\ \E op \in {"And", "Or"}, l \in LogicLhs, r \in LogicRhs : LoadedLogic(op, l, r)

NextLogic ==
    \/ ExecLogic
    \/ Immediate
    \/ ImmTrue
    \/ ImmFalse
    \/ ImmNil
    \/ Constant
    \/ DefineGlobal
    \/ SetGlobal
    \/ JumpIfFalse
    \/ Jump
    \/ Pop
    \/ Ret

SpecLogic == Init /\ [][NextLogic]_vars

\* Value::truthy of the value of a literal
LitTruthy(e) ==
    CASE e.t = "Nil" -> FALSE
      [] e.t = "Boolean" -> e.b
      [] OTHER -> TRUE

\* the run evaluates the right operand
TakesRhs == IF unit.op = "And" THEN LitTruthy(unit.lhs) ELSE ~LitTruthy(unit.lhs)

\* the run stands after the statement `l op r`
LogicDone ==
    /\ unit.k = "logic"
    /\ status = "running"
    /\ Len(frames) = 1
    /\ frames[1].ip = stmt_bounds[2]

\* C31: `l And r` evaluates r only if l is truthy and `l Or r` only if l is
\* falsy; the statement leaves exactly one value on the stack, the value of r
\* when r was evaluated and the value of l otherwise; no instruction of it fails.
C31_ShortCircuit ==
    /\ unit.k = "logic" => status # "panic"
    /\ (unit.k = "logic" /\ ~TakesRhs /\ s_more \in DOMAIN globals
          /\ ~(status = "running" /\ Last(frames).ip < stmt_bounds[1])) =>
          IsValueOf(globals[s_more], Untouched)
    /\ LogicDone =>
          /\ Len(stack) = heights[1] + 1
          /\ IsValueOf(Last(stack), IF TakesRhs THEN unit.rhs ELSE unit.lhs)
          /\ IsValueOf(globals[s_more], IF TakesRhs THEN unit.rhs ELSE Untouched)

C31_Witness ==
    /\ LogicDone
    /\ unit.op = "Or"
    /\ unit.lhs = NilLit
    /\ unit.rhs = Number(7)
    /\ Last(stack) = Float(7)

\* ------------------------------------------------------------ While loops
\* a global read, and a global written with the written value dropped
ReadG(n) == Var(Binding_global(n))
WriteG(n, e) == << Mutate(ReadG(n), e), PopExpr >>

\* `while n { n = v }`
LoopUntil(n, v) == While(ReadG(n), Block(WriteG(n, v)))

\* loops of no, one and two iterations, two loops in a row, a loop in a loop
WhilePrograms ==
    << << Bind(Binding_global(s_a), Boolean(FALSE)), LoopUntil(s_a, NilLit) >>,
       << Bind(Binding_global(s_a), NilLit), LoopUntil(s_a, Boolean(FALSE)) >>,
       << Bind(Binding_global(s_a), Number(1)), LoopUntil(s_a, NilLit) >>,
       << Bind(Binding_global(s_a), Boolean(TRUE)),
          Bind(Binding_global(s_b), String(s_hello)),
          While(ReadG(s_a), Block(WriteG(s_a, ReadG(s_b)) \o WriteG(s_b, NilLit))) >>,
       << Bind(Binding_global(s_a), Boolean(TRUE)),
          LoopUntil(s_a, Boolean(FALSE)),
          Bind(Binding_global(s_b), Number(0)),
          LoopUntil(s_b, NilLit) >>,
       << Bind(Binding_global(s_a), Boolean(TRUE)),
          Bind(Binding_global(s_b), Boolean(TRUE)),
          While(ReadG(s_a),
                Block(<< LoopUntil(s_b, Boolean(FALSE)) >> \o WriteG(s_a, ReadG(s_b)))) >> >>

LoadedWhile(n) ==
    LET e == exec(VMRec, WhilePrograms[n])
    IN /\ CommitVM(e.vm)
       /\ execs' = execs + 1
       /\ program' = "while"
       /\ stmt_bounds' = e.bounds
       /\ heights' = NoteHeight(e.vm, e.bounds, EmptyFn)
       /\ unit' = [k |-> "while", body |-> WhilePrograms[n]]
       /\ UNCHANGED <<held, roots>>

ExecWhile ==
    /\ status = "idle"
    /\ execs < MaxExecs
    /\ \E n \in DOMAIN WhilePrograms : LoadedWhile(n)

NextWhile ==
    \/ ExecWhile
    \/ ImmTrue
    \/ ImmFalse
    \/ ImmNil
    \/ Immediate
    \/ Constant
    \/ DefineGlobal
    \/ GetGlobal
    \/ SetGlobal
    \/ JumpIfFalse
    \/ Loop
    \/ Pop
    \/ Ret

SpecWhile == Init /\ [][NextWhile]_vars

RECURSIVE ExprSize(_)
RECURSIVE ExprsSize(_, _)
\* the number of bytes the expressions of WhilePrograms compile to
ExprSize(e) ==
    CASE e.k = "Literal" -> IF e.t = "Number" THEN 9 ELSE IF e.t = "String" THEN 2 ELSE 1
      [] e.k = "Var" -> 2
      [] e.k = "Pop" -> 1
      [] e.k \in {"Bind", "Mutate"} -> ExprSize(e.rhs) + 2
      [] e.k = "Block" -> ExprsSize(e.body, 1)
      [] e.k = "While" -> ExprSize(e.cond) + 4 + ExprSize(e.body) + 4

ExprsSize(body, i) ==
    IF i > Len(body) THEN 0 ELSE ExprSize(body[i]) + ExprsSize(body, i + 1)

\* the number of values the expressions of WhilePrograms leave on the
\* stack: a global bind and an assignment leave the value, Pop takes one
Leaves(e) ==
    CASE e.k \in {"Bind", "Mutate"} -> 1
      [] e.k = "Pop" -> 0 - 1
      [] OTHER -> 0

RECURSIVE LoopSites(_, _, _, _)
\* the loops among the expressions body[i..], the first of which starts at
\* offset off with h values left by the expressions before it: for each its
\* loop-start, the offsets of its JumpIfFalse and of its Loop instruction,
\* the offset of its exit Pop, and h
LoopSites(body, i, off, h) ==
    IF i > Len(body) THEN {}
    ELSE (CASE body[i].k = "While" ->
                  {[start |-> off,
                    jze |-> off + ExprSize(body[i].cond),
                    loop |-> off + ExprSize(body[i]) - 4,
                    exit |-> off + ExprSize(body[i]) - 1,
                    h |-> h]}
                  \cup LoopSites(body[i].body.body, 1,
                                 off + ExprSize(body[i].cond) + 4, h)
            [] OTHER -> {})
         \cup LoopSites(body, i + 1, off + ExprSize(body[i]), h + Leaves(body[i]))

\* the loops of the program that runs
Sites == IF unit.k = "while" THEN LoopSites(unit.body, 1, 0, 0) ELSE {}

\* the offset the script's frame is at
ScriptIp == IF status = "running" /\ Len(frames) = 1 THEN frames[1].ip ELSE NONE

\* the condition value is popped once per iteration and once on exit: at
\* every arrival at a loop-start and after every exit Pop the stack holds
\* what the expressions before the loop left, and nothing of the loop
PoppedOnce ==
    \A s \in Sites :
        (ScriptIp \in {s.start, s.exit + 1}) => Len(stack) = heights[0] + s.h

\* C32: the Loop instruction of every While loop sets ip to the offset where
\* the condition's code begins; its JumpIfFalse on a falsy condition sets ip
\* to the exit Pop and on a truthy one goes on to the Pop before the body; the
\* condition value is popped once per iteration and once on exit.
C32_LoopJumps ==
    /\ [](unit.k = "while" => status # "panic")
    /\ [](PoppedOnce)
    /\ [][\A s \in Sites :
            /\ (ScriptIp = s.loop) =>
                  (/\ ThisOp = OP_Loop
                   /\ status' = "running"
                   /\ frames'[1].ip = s.start)
            /\ (ScriptIp = s.jze) =>
                  (/\ ThisOp = OP_JumpIfFalse
                   /\ FrameFunction.code[s.jze + 4] = OP_Pop
                   /\ FrameFunction.code[s.exit + 1] = OP_Pop
                   /\ status' = "running"
                   /\ stack' = stack
                   /\ frames'[1].ip = IF truthy(Last(stack)) THEN s.jze + 3 ELSE s.exit)]_vars

\* the inner loop of the nest has just been left through its JumpIfFalse
\* while the outer loop goes on
C32_Witness ==
    /\ unit.k = "while"
    /\ Cardinality(Sites) = 2
    /\ \E s \in Sites, o \in Sites :
          /\ o.start < s.start
          /\ ScriptIp = s.exit
          /\ ~truthy(Last(stack))

\* ------------------------------------------------- captured locals, shared
\* a local of the script, and a local of the script read or written from
\* a function declared in the script
Own(n) == Var(Binding_local(n, 1, 1))
Outer(n) == Var(Binding_local(n, 2, 1))
SetOwn(n, e) == << Mutate(Own(n), e), PopExpr >>

\* the locals x and q; a loop of two rounds that makes a closure over x only
\* when `again` holds and a closure over q in every round
CaptureInLoop(first) ==
    << String(s_pad), PopExpr,
       Bind(Binding_local(s_x, 1, 1), Number(1)),
       Bind(Binding_local(s_q, 1, 1), Number(2)),
       Bind(Binding_local(s_a, 1, 1), Boolean(first)),
       Bind(Binding_local(s_more, 1, 1), Boolean(TRUE)),
       Bind(Binding_local(s_go, 1, 1), Boolean(TRUE)),
       While(Own(s_go),
             Block(<< Binary(Own(s_a), "And",
                             AnonFunction(Binding_local(s_inner, 1, 1), <<>>,
                                          << Return(Outer(s_x)) >>)),
                      PopExpr,
                      AnonFunction(Binding_local(s_outer, 1, 1), <<>>,
                                   << Return(Outer(s_q)) >>),
                      PopExpr >>
                   \o SetOwn(s_go, Own(s_more))
                   \o SetOwn(s_more, Boolean(FALSE))
                   \o SetOwn(s_a, Boolean(TRUE)))) >>

\* x is captured by a reader; another function is called and returns; the
\* caller then writes x and asks the reader
WriteThenRead ==
    << String(s_pad), PopExpr,
       Bind(Binding_local(s_x, 1, 1), Number(5)),
       Function(Binding_local(s_inner, 1, 1), <<>>, << Return(Outer(s_x)) >>),
       Function(Binding_local(s_go, 1, 1), <<>>, << Return(Number(0)) >>),
       Call(Own(s_go), <<>>), PopExpr >>
    \o SetOwn(s_x, Number(7))
    \o << Bind(Binding_global(s_res), Call(Own(s_inner), <<>>)) >>

\* x is captured by a writer; another function is called and returns; the
\* writer is called and the caller then reads x
CallThenRead ==
    << String(s_pad), PopExpr,
       Bind(Binding_local(s_x, 1, 1), Number(5)),
       Function(Binding_local(s_inner, 1, 1), <<>>,
                << Mutate(Outer(s_x), Number(9)), PopExpr, Return(Number(0)) >>),
       Function(Binding_local(s_go, 1, 1), <<>>, << Return(Number(0)) >>),
       Call(Own(s_go), <<>>), PopExpr,
       Call(Own(s_inner), <<>>), PopExpr,
       Bind(Binding_global(s_res), Own(s_x)) >>

UpvalueNames == << "early", "late", "written", "called" >>

UpvaluePrograms ==
    << CaptureInLoop(TRUE), CaptureInLoop(FALSE), WriteThenRead, CallThenRead >>

ExecUpvalues ==
    /\ status = "idle"
    /\ execs < MaxExecs
    /\ \E n \in DOMAIN UpvalueNames :
         Loaded(UpvalueNames[n], exec(VMRec, UpvaluePrograms[n]))

NextUpvalues ==
    \/ ExecUpvalues
    \/ Constant
    \/ Immediate
    \/ ImmTrue
    \/ ImmFalse
    \/ ClosureOp
    \/ CallOp
    \/ GetLocal
    \/ SetLocal
    \/ GetUpValue
    \/ SetUpValue
    \/ DefineGlobal
    \/ JumpIfFalse
    \/ Loop
    \/ Pop
    \/ Ret
    \/ ImmNil

SpecUpvalues == Init /\ [][NextUpvalues]_vars

\* C33: the open upvalues in the VM's open_upvalues list are in the order of
\* their stack slots.
C33_OpenUpvaluesSorted ==
    \A i \in DOMAIN open_upvalues, j \in DOMAIN open_upvalues :
        (i < j /\ cells[open_upvalues[i]].open /\ cells[open_upvalues[j]].open) =>
            cells[open_upvalues[i]].slot <= cells[open_upvalues[j]].slot

\* VM::close_upvalues has just completed with threshold stack_end
ClosedAt(stack_end) ==
    /\ close_log'.n = close_log.n + 1
    /\ close_log'.stack_end = stack_end

\* C35: closing upvalues with threshold t leaves every open upvalue whose
\* slot is below t open; so after a callee has returned, a write by the
\* caller to a captured local is read by the closure (program written: 7),
\* and a write by the closure is read by the caller (program called: 9).
C35_LowerUpvaluesStayOpen ==
    /\ [][\A t \in 0..Len(stack) :
            ClosedAt(t) =>
               \A u \in Range(open_upvalues) :
                  (cells[u].open /\ cells[u].slot < t) =>
                     (cells'[u].open /\ u \in Range(open_upvalues'))]_vars
    /\ []((program = "written" /\ s_res \in DOMAIN globals) => globals[s_res] = Float(7))
    /\ []((program = "called" /\ s_res \in DOMAIN globals) => globals[s_res] = Float(9))

\* ------------------------------------------------ binding depths of locals
\* the binding depths the top-level Binds are given: 0 as in tests::locals,
\* and 1
BindDepths == {0, 1}

InitDepths ==
    /\ VM_new
    /\ unit = [c |-> ScriptCompiler, depth |-> NONE]

\* the compiler meets `bind(Binding::local(name, depth, 0), 42)` at the top
\* level
BindAtDepth ==
    /\ ~Failed(unit.c)
    /\ Len(Top(unit.c).locals) <= MaxDeclared
    /\ \E d \in BindDepths :
         unit' = [c |-> compile_expr(unit.c,
                           Bind(Binding_local(LocalName(Len(Top(unit.c).locals)), d, 0),
                                Number(42))),
                  depth |-> d]
    /\ UNCHANGED vm_vars

NextDepths == BindAtDepth

SpecDepths == InitDepths /\ [][NextDepths]_vars

\* C34: a top-level Bind of a local of binding depth 0 compiles, and the
\* local gets the next free slot index: it is appended to the locals of the
\* script function under its name.
C34_DepthZeroCompiles ==
    [][(unit'.depth = 0) =>
          (/\ ~Failed(unit'.c)
           /\ Len(Top(unit'.c).locals) = Len(Top(unit.c).locals) + 1
           /\ Last(Top(unit'.c).locals).name = LocalName(Len(Top(unit.c).locals)))]_vars

\* --------------------------------------------- natives that call back in
s_apply == <<"a", "p", "p", "l", "y">>
s_twice == <<"t", "w", "i", "c", "e">>

\* the natives the embedder registers, of one argument each:
\*   apply: |ctx| ctx.call(ctx.get_arg(1).as_object().unwrap(), vec![])
\*   twice: the same call made two times, the second result returned
CallerNames == [apply |-> s_apply, twice |-> s_twice]
Callers == DOMAIN CallerNames
CallsMade == [apply |-> 1, twice |-> 2]

\* nothing pending: pend holds, innermost last, the CallContext::call in
\* progress (len: the frame count its run_and_find_value watches, start: the
\* native's frame_start, f: the handle called, left: the calls the native
\* still makes, before: the stack when call was entered); last is the
\* CallContext::call that returned last (the stack before and after, the
\* value it returned, the value its frame returned)
NoCallback == [op |-> "none"]
NativeUnit == [k |-> "native", pend |-> << >>, last |-> NoCallback]

\* the embedder registers one of the natives
AddCaller ==
    /\ status = "idle"
    /\ execs = 0
    /\ \E n \in Callers :
         /\ CallerNames[n] \notin DOMAIN globals
         /\ CommitVM(add_native(VMRec, CallerNames[n], n, 1))
    /\ unit' = NativeUnit
    /\ UNCHANGED <<execs, program, stmt_bounds, heights, held, roots>>

\* the bodies of the function handed to the native: a number, a new list,
\* the result of a call
CallbackBodies ==
    [num |-> << Return(Number(7)) >>,
     list |-> << Return(List(<< Number(7) >>)) >>,
     calls |-> << Return(Call(AnonFunction(Binding_local(s_go, 2, 2), <<>>,
                                           << Return(Number(7)) >>), <<>>)) >>]

\* native(fn() { body }) as a statement
CallbackProgram(n, b) ==
    << Call(Var(Binding_global(CallerNames[n])),
            << AnonFunction(Binding_local(s_inner, 1, 1), <<>>,
                            CallbackBodies[b]) >>),
       PopExpr >>

ExecNatives ==
    /\ status = "idle"
    /\ execs < MaxExecs
    /\ unit.k = "native"
    /\ \E n \in Callers, b \in DOMAIN CallbackBodies :
         /\ CallerNames[n] \in DOMAIN globals
         /\ Loaded(n, exec(VMRec, CallbackProgram(n, b)))

RECURSIVE push_all(_, _, _)
\* `for arg in &args { self.push(arg.clone()) }`
push_all(vm, args, i) ==
    IF i > Len(args) THEN vm ELSE push_all(push(vm, args[i]), args, i + 1)

\* VM::internal_call up to run_and_find_value: the arguments, the frame
internal_call(vm, handle, args) ==
    Let(push_all(vm, args, 1), LAMBDA v1 :
        IF ~Running(v1) THEN v1
        ELSE IF Len(v1.stack) = Len(args)
        THEN RustPanic(v1, "attempt to subtract with overflow")
        ELSE [v1 EXCEPT
                !.frames = Append(@,
                    [closure |-> handle, ip |-> 0,
                     stack_start |-> IF Len(v1.stack) < Len(args) THEN 0
                                     ELSE Len(v1.stack) - (Len(args) + 1),
                     id |-> v1.frame_seq + 1]),
                !.frame_seq = @ + 1])

\* the native up to its CallContext::call: get_arg(1).as_object().unwrap()
native_enter(vm, frame_start) ==
    Then(stack_at(vm, frame_start + 1), LAMBDA v1, arg :
        IF ~Running(v1) THEN [vm |-> v1, r |-> 0]
        ELSE IF ~IsObj(arg)
        THEN [vm |-> RustPanic(v1, "called Option::unwrap() on a None value"), r |-> 0]
        ELSE [vm |-> internal_call(v1, arg.v, << >>), r |-> arg.v])

\* the tail of the NativeFunction arm of VM::call: drain, pop, push
native_leave(vm, frame_start, value) ==
    IF ~Running(vm) THEN vm
    ELSE IF frame_start + 1 > Len(vm.stack)
    THEN RustPanic(vm, "range start index out of range")
    ELSE push([vm EXCEPT !.stack = SubSeq(@, 1, frame_start)], value)

\* the slot of the callee of the Call the next iteration decodes
CalleeSlot == Len(stack) - (ThisOp - OP_Call)

\* the next iteration decodes a Call of one of the natives
NativeCallNext ==
    /\ ThisOp \in OP_Call..(OP_Call + MAX_CALL_ARGS)
    /\ CalleeSlot \in DOMAIN stack
    /\ IsObj(stack[CalleeSlot])
    /\ contains(heap, stack[CalleeSlot].v)
    /\ heap.store[stack[CalleeSlot].v].kind = "NativeFunction"
    /\ heap.store[stack[CalleeSlot].v].function \in Callers

\* the frame whose Return the innermost CallContext::call waits for is the
\* current one
InnerFrame ==
    /\ unit.k = "native"
    /\ unit.pend # << >>
    /\ Len(frames) = Last(unit.pend).len

\* the variables after an iteration that left the VM as `after` and the
\* natives in progress as u
SettleUnit(after, u) ==
    /\ CommitVM(after)
    /\ unit' = u
    /\ heights' = NoteHeight(after, stmt_bounds, heights)
    /\ UNCHANGED <<execs, program, stmt_bounds, held, roots>>

\* a Call whose callee is one of the natives: VM::call up to the native,
\* the native up to its first CallContext::call, internal_call up to the
\* dispatch loop
CallNative ==
    /\ status = "running"
    /\ NativeCallNext
    /\ LET native == heap.store[stack[CalleeSlot].v]
           start == CalleeSlot - 1
           v1 == read_byte(VMRec).vm
       IN IF native.arity # ThisOp - OP_Call
          THEN SettleUnit(runtime_error(v1, "arity mismatch"), unit)
          ELSE LET e == native_enter(v1, start)
               IN SettleUnit(e.vm,
                     IF ~Running(e.vm) THEN unit
                     ELSE [unit EXCEPT !.pend = Append(@,
                              [len |-> Len(e.vm.frames), start |-> start,
                               f |-> e.r, left |-> CallsMade[native.function] - 1,
                               before |-> v1.stack])])

\* every other Call
CallPlain ==
    /\ ~NativeCallNext
    /\ CallOp

\* the Return of a frame CallContext::call pushed: VM::ret, then
\* run_and_find_value leaves its loop and pops the value; the native goes on
\* to its next call, or returns the value and VM::call finishes
RetInner ==
    /\ status = "running"
    /\ InnerFrame
    /\ ThisOp = OP_Return
    /\ LET pd == Last(unit.pend)
           v1 == read_byte(VMRec).vm
           p == pop(ret(v1))
           made == [op |-> "call", before |-> pd.before, after |-> p.vm.stack,
                    value |-> p.r, returned |-> Last(stack)]
       IN IF ~Running(p.vm) THEN SettleUnit(p.vm, unit)
          ELSE IF pd.left > 0
          THEN LET v2 == internal_call(p.vm, pd.f, << >>)
               IN SettleUnit(v2,
                     [unit EXCEPT !.last = made,
                                  !.pend[Len(unit.pend)] =
                                      [pd EXCEPT !.left = @ - 1,
                                                 !.len = Len(v2.frames),
                                                 !.before = p.vm.stack]])
          ELSE SettleUnit(Finish(native_leave(p.vm, pd.start, p.r)),
                          [unit EXCEPT !.last = made, !.pend = Front(@)])

\* every other Return
RetPlain ==
    /\ ~InnerFrame
    /\ Ret

NextNatives ==
    \/ AddCaller
    \/ ExecNatives
    \/ GetGlobal
    \/ ClosureOp
    \/ CallNative
    \/ CallPlain
    \/ Immediate
    \/ ListOp
    \/ RetInner
    \/ RetPlain
    \/ Pop
    \/ ImmNil

SpecNatives == Init /\ [][NextNatives]_vars

\* C36: CallContext::call returns the value its frame returned, no frame
\* below the one it pushed runs an instruction before it returns, and it
\* leaves the operand stack as it was when it was called.
C36_CallbackLeavesStack ==
    /\ (unit.k = "native" /\ status = "running") =>
          \A i \in DOMAIN unit.pend : Len(frames) >= unit.pend[i].len
    /\ (unit.k = "native" /\ unit.last.op = "call") =>
          /\ unit.last.value = unit.last.returned
          /\ unit.last.after = unit.last.before

\* C37: the closure of every active call frame is in the heap.
C37_FrameClosuresLive ==
    status = "running" => \A i \in DOMAIN frames : contains(heap, frames[i].closure)

\* C38: every function the compiler produces, the script and every nested
\* function, with or without a return statement in its body, reaches a
\* Return on every path: the ip of the frame that executes is always the
\* offset of a byte of its chunk's code.
C38_IpInsideCode ==
    (status = "running" /\ FrameLive) => Last(frames).ip < Len(FrameFunction.code)

\* Chunk::get_constant: the constant at idx, if there is one
get_constant(constants, idx) ==
    IF idx < Len(constants) THEN [some |-> TRUE, v |-> constants[idx + 1]]
    ELSE [some |-> FALSE, v |-> nil]

\* C39: the index add_constant returns for a constant retrieves that
\* constant through get_constant, whatever the size of the pool.
C39_IndexRetrievesConstant ==
    [][~Failed(unit'.c) =>
          get_constant(Pool(unit'), unit'.r) = [some |-> TRUE, v |-> unit'.v]]_vars

\* ------------------------------------------- a collection, call by call
\* The mark phase of Heap::clean_excluding unrolled into the calls it makes:
\* unit.calls is the call stack of the Trace loops that are running, each
\* with the values it iterates over and the position it has reached.
GraphFunction ==
    [kind |-> "Function", name |-> s_inner, arity |-> 0, upvalue_count |-> 1,
     code |-> << OP_Return >>, constants |-> << Float(7) >>]

\* the object of a node: a list of the target, or a closure whose one
\* upvalue is the node's cell (closed over the target)
GraphObject(closures, n, target) ==
    IF closures
    THEN [kind |-> "Closure", function |-> GraphFunction,
          upvalues |-> IF target = 0 THEN << >> ELSE << n >>]
    ELSE [kind |-> "List",
          content |-> IF target = 0 THEN << >> ELSE << object(target) >>]

GraphCell(target) ==
    [open |-> FALSE, slot |-> 0,
     val |-> IF target = 0 THEN nil ELSE object(target), frame_id |-> 0]

\* a heap of MaxNodes objects none of which is held by a Rooted; pre is the
\* number of collections the heap has been through
GraphHeap(closures, targets, pre) ==
    [last_sweep |-> pre,
     object_sweeps |-> IF pre = 0 THEN EmptyFn ELSE [h \in 1..MaxNodes |-> pre],
     obj_counter |-> MaxNodes,
     objects |-> 1..MaxNodes,
     rooted |-> [h \in 1..MaxNodes |-> 1],
     store |-> [h \in 1..MaxNodes |-> GraphObject(closures, h, targets[h])]]

\* the handles clean_excluding is given
GraphRoots == {<< >>, << 1, 2 >>} \cup {<< h >> : h \in 1..MaxNodes}

InitMark ==
    /\ VM_new
    /\ \E closures \in BOOLEAN, pre \in {0, 1}, excluding \in GraphRoots :
         \E targets \in [1..MaxNodes -> 0..MaxNodes] :
            unit = [k |-> "mark",
                    heap |-> GraphHeap(closures, targets, pre),
                    cells |-> [h \in 1..MaxNodes |-> GraphCell(targets[h])],
                    roots |-> excluding, ri |-> 1,
                    new_sweep |-> pre + 1,
                    sweeps |-> GraphHeap(closures, targets, pre).object_sweeps,
                    calls |-> << >>, traced |-> {}, again |-> FALSE,
                    done |-> FALSE,
                    out |-> GraphHeap(closures, targets, pre)]

\* a running Trace loop over the children of h
TraceCall(u, h, by) ==
    [h |-> h, by |-> by, i |-> 1,
     vals |-> TraceChildren(u.heap.store[h], u.cells)]

\* a mark that forgets the stamp
Tracer_mark_unstamped(u, h) ==
    LET s1 == IF h \in DOMAIN u.sweeps THEN u.sweeps
              ELSE Put(u.sweeps, h, u.new_sweep - 1)
    IN IF s1[h] # u.new_sweep /\ h \in u.heap.objects
       THEN [u EXCEPT !.sweeps = s1,
                      !.calls = Append(@, TraceCall(u, h, "mark")),
                      !.again = @ \/ h \in u.traced,
                      !.traced = @ \cup {h}]
       ELSE [u EXCEPT !.sweeps = s1]

\* Tracer::mark up to its call of trace
Tracer_mark(u, h) ==
    LET s1 == IF h \in DOMAIN u.sweeps THEN u.sweeps
              ELSE Put(u.sweeps, h, u.new_sweep - 1)
    IN IF s1[h] # u.new_sweep /\ h \in u.heap.objects
       THEN [u EXCEPT !.sweeps = [s1 EXCEPT ![h] = u.new_sweep],
                      !.calls = Append(@, TraceCall(u, h, "mark")),
                      !.again = @ \/ h \in u.traced,
                      !.traced = @ \cup {h}]
       ELSE [u EXCEPT !.sweeps = s1]

\* the recursion cannot go deeper than one loop per object and the root's
MaxDepth == MaxNodes + 2

\* clean_excluding takes its next root: tracer.mark(handle), and after it
\* (&*handle.ptr).trace(&mut tracer)
MarkRootCall ==
    /\ unit.k = "mark" /\ ~unit.done
    /\ unit.calls = << >>
    /\ unit.ri <= Len(unit.roots)
    /\ LET h == unit.roots[unit.ri]
       IN unit' = Tracer_mark([unit EXCEPT !.ri = @ + 1,
                                           !.calls = << TraceCall(unit, h, "root") >>],
                              h)
    /\ UNCHANGED vm_vars

\* Trace for Value on the next value of the innermost loop
MarkChild ==
    /\ unit.k = "mark"
    /\ unit.calls # << >>
    /\ Last(unit.calls).i <= Len(Last(unit.calls).vals)
    /\ Len(unit.calls) <= MaxDepth
    /\ LET top == Last(unit.calls)
           u1 == [unit EXCEPT !.calls[Len(unit.calls)].i = @ + 1]
       IN unit' = IF IsObj(top.vals[top.i])
                  THEN Tracer_mark(u1, top.vals[top.i].v)
                  ELSE u1
    /\ UNCHANGED vm_vars

\* the innermost loop is through its values
TraceReturn ==
    /\ unit.k = "mark"
    /\ unit.calls # << >>
    /\ Last(unit.calls).i > Len(Last(unit.calls).vals)
    /\ unit' = [unit EXCEPT !.calls = Front(@)]
    /\ UNCHANGED vm_vars

\* the roots are through: the sweep phase
SweepCall ==
    /\ unit.k = "mark" /\ ~unit.done
    /\ unit.calls = << >>
    /\ unit.ri > Len(unit.roots)
    /\ unit' = [unit EXCEPT !.done = TRUE,
                            !.out = sweep(unit.heap, RootedHeld(unit.heap),
                                          unit.sweeps, unit.new_sweep)]
    /\ UNCHANGED vm_vars

NextMark ==
    \/ MarkRootCall
    \/ MarkChild
    \/ TraceReturn
    \/ SweepCall

\* the collection is one call: each of its steps is taken once it can be
SpecMark == InitMark /\ [][NextMark]_vars /\ WF_vars(NextMark)

\* the objects on a cycle of the graph
OnCycle(u) ==
    {h \in u.heap.objects :
        h \in ReachFrom(Refs(u.heap.store[h], u.cells), u.heap, u.cells)}

\* every running mark of an object has stamped it, and no two are of the
\* same object
MarksStamped ==
    LET ms == {j \in 1..Len(unit.calls) : unit.calls[j].by = "mark"}
    IN /\ \A j \in ms : /\ unit.calls[j].h \in DOMAIN unit.sweeps
                        /\ unit.sweeps[unit.calls[j].h] = unit.new_sweep
       /\ \A j, l \in ms : unit.calls[j].h = unit.calls[l].h => j = l

\* C40: a collection terminates for every heap graph, cyclic ones
\* included: it reaches its sweep, the nesting of its Trace loops never
\* exceeds one per object plus the root's, an object is stamped before its
\* children are traced, no object is traced by two marks of one collection,
\* and what is left is what the roots reach (which is what the collection
\* computes when it is evaluated in one go).
C40_CollectionTerminates ==
    /\ <>(unit.done)
    /\ [](Len(unit.calls) <= MaxNodes + 1)
    /\ [](MarksStamped /\ ~unit.again)
    /\ [](unit.done =>
            /\ unit.out.objects = ReachFrom(Range(unit.roots), unit.heap, unit.cells)
            /\ unit.out = clean_excluding(unit.heap, unit.roots, unit.cells))

\* a collected heap where closure 1 is its own upvalue and is kept, 2 and 3
\* close over each other and are freed
C40_Witness ==
    /\ unit.done
    /\ unit.heap.store[1].kind = "Closure"
    /\ unit.cells[1].val = object(1)
    /\ unit.cells[2].val = object(3) /\ unit.cells[3].val = object(2)
    /\ unit.roots = << 1 >>
    /\ OnCycle(unit) = {1, 2, 3}
    /\ unit.out.objects = {1}

====
